---- MODULE Spec2Model ----
(***************************************************************************)
(* Identity resolution, per-workspace engine registry, user store and      *)
(* session tokens of Graph2RAG.                                            *)
(*                                                                         *)
(*   src/lightrag_server_auth.py            rag_instances,                 *)
(*                                          get_or_create_rag,             *)
(*                                          create_authenticated_app       *)
(*   src/lightrag/api/workspace_middleware.py  WorkspaceMiddleware         *)
(*   src/lightrag/api/user_manager.py       UserManager, its users file    *)
(*                                          (_load_users, _save_users)     *)
(*   src/lightrag/api/routers/auth_routes.py  login, register, /auth/me,   *)
(*                                          logout, change_password        *)
(*   src/integrated_auth_server.py          create_token, verify_token,    *)
(*                                          the portal's login and verify  *)
(*   src/manage_users.py                    delete_user, toggle_user_status*)
(*                                                                         *)
(* The server runs on one asyncio event loop: a coroutine runs without     *)
(* interruption from one await to the next, so every action below is one   *)
(* such segment of a coroutine. The server process can end and start       *)
(* again; manage_users.py runs in a process of its own and shares only the *)
(* users file with the server.                                             *)
(***************************************************************************)
EXTENDS Integers, Sequences, FiniteSets, TLC

\* ------------------------------------------------------------------ bounds
\* Coroutines that call get_or_create_rag concurrently.
NumTasks == 2
\* LightRAG objects constructed in one run (caps the engines sequence).
MaxConstructions == 3
\* Requests in flight through the middleware chain at once.
NumRequests == 1

Tasks == 1..NumTasks
Requests == 1..NumRequests

\* Python's None.
NoneVal == "<None>"

\* Workspace arguments get_or_create_rag is called with.
WorkspaceArgs == {NoneVal, "default", "tenantA"}

VARIABLES
    \* ---- src/lightrag_server_auth.py
    rag_instances,  \* the dict workspace -> LightRAG object (by identity, an
                    \* index into engines); its DOMAIN is the dict's key set
    engines,        \* every LightRAG object constructed so far:
                    \* [workspace, status], status one of "initializing",
                    \* "ready", "failed", "aborted"
    dirs,           \* working directories os.makedirs has created
    pc,             \* per task: where its get_or_create_rag call stands
    workspace,      \* per task: the local `workspace` after line 29
    rag,            \* per task: the local `rag` (0: not assigned)
    result,         \* per task: the returned object (0: none)
    obtained,       \* log: <<workspace, object>> pairs returned to callers
    \* ---- src/lightrag/api/config.py (global_args), user_manager.py
    api_key,        \* global_args.api_key
    users,          \* user_manager.users: username -> User record
    \* ---- one HTTP request per slot
    rpc,            \* per request: "idle", "chain" (in the middleware
                    \* chain), "handled", "rejected", "error"
    req,            \* per request: its path class and headers
    pos,            \* per request: index into user_middleware of the
                    \* middleware that runs next
    state,          \* per request: request.state, a function whose DOMAIN
                    \* is the set of attributes set so far
    ran,            \* per request: what has run for it, in order
    exc,            \* per request: the HTTPException raised (NoExc: none)
    \* ---- src/lightrag/api/user_manager.py, called directly
    now,            \* datetime.utcnow(), in hours
    last_call,      \* the last UserManager call: its arguments and outcome
    \* ---- auth_routes.py, integrated_auth_server.py and their clients
    users_file,     \* users.json: whether it exists, and its text
    issued,         \* the token the client holds (a set of at most one)
    resp,           \* the last response a server has sent
    pending,        \* per handler of the API server: whether it is
                    \* suspended in _save_users, where, the data it
                    \* writes and the response it returns afterwards
    running         \* whether the API server process is running

regVars == <<rag_instances, engines, dirs, pc, workspace, rag, result, obtained>>
cfgVars == <<api_key, users>>
reqVars == <<rpc, req, pos, state, ran, exc>>
storeVars == <<now, last_call>>
authVars == <<users_file, issued, resp, pending, running>>
vars == <<rag_instances, engines, dirs, pc, workspace, rag, result, obtained,
          api_key, users, rpc, req, pos, state, ran, exc, now, last_call,
          users_file, issued, resp, pending, running>>

\* ------------------------------------------------------- the registry
\* get_or_create_rag lines 28-29: None maps to the key "default".
Key(ws) == IF ws = NoneVal THEN "default" ELSE ws

\* dict assignment d[k] = v.
DictSet(d, k, v) == [x \in (DOMAIN d) \cup {k} |-> IF x = k THEN v ELSE d[x]]

\* The LightRAG object under construction, as line 37 leaves it.
NewEngine(ws) == [workspace |-> ws, status |-> "initializing"]

\* Mutant: the object is put in the dict as soon as it is constructed.
CacheAtConstruct_Early(ws, h) == DictSet(rag_instances, ws, h)

\* The dict after the constructor has returned and before the await of
\* line 44: line 45 has not run yet.
CacheAtConstruct(ws, h) == rag_instances

\* Line 45, run after initialize_storages() has returned.
CacheAtPublish(ws, h) == DictSet(rag_instances, ws, h)

\* Mutant: the object is stored although its initialization raised.
CacheAtFailure_Poisoned(ws, h) == DictSet(rag_instances, ws, h)

\* The dict after initialize_storages() (or anything before it) has raised:
\* the exception leaves get_or_create_rag before line 45.
CacheAtFailure(ws, h) == rag_instances

\* Mutant: the membership test is dropped.
MustConstruct_Always(ws) == TRUE

\* Line 31: whether the call constructs.
MustConstruct(ws) == ws \notin DOMAIN rag_instances

\* Line 47 for a call that found the key at line 31.
CachedHandle(ws) == rag_instances[ws]

\* get_or_create_rag from its call to its first await or its return
\* (lines 28-44, or 28-31 and 47).
GetOrCreateRag(t, arg) ==
    /\ pc[t] = "idle"
    /\ LET ws == Key(arg) IN
       IF ~MustConstruct(ws)
       THEN /\ pc' = [pc EXCEPT ![t] = "returned"]
            /\ workspace' = [workspace EXCEPT ![t] = ws]
            /\ result' = [result EXCEPT ![t] = CachedHandle(ws)]
            /\ obtained' = obtained \cup {<<ws, CachedHandle(ws)>>}
            /\ UNCHANGED <<rag_instances, engines, dirs, rag>>
       ELSE \/ \* os.makedirs raises (line 34)
               /\ pc' = [pc EXCEPT ![t] = "raised"]
               /\ workspace' = [workspace EXCEPT ![t] = ws]
               /\ UNCHANGED <<rag_instances, engines, dirs, rag, result, obtained>>
            \/ \* LightRAG(...) raises (line 37)
               /\ pc' = [pc EXCEPT ![t] = "raised"]
               /\ workspace' = [workspace EXCEPT ![t] = ws]
               /\ dirs' = dirs \cup {ws}
               /\ UNCHANGED <<rag_instances, engines, rag, result, obtained>>
            \/ \* constructed; the call suspends at line 44
               /\ Len(engines) < MaxConstructions
               /\ pc' = [pc EXCEPT ![t] = "await_init"]
               /\ workspace' = [workspace EXCEPT ![t] = ws]
               /\ dirs' = dirs \cup {ws}
               /\ engines' = Append(engines, NewEngine(ws))
               /\ rag' = [rag EXCEPT ![t] = Len(engines) + 1]
               /\ rag_instances' = CacheAtConstruct(ws, Len(engines) + 1)
               /\ UNCHANGED <<result, obtained>>
    /\ UNCHANGED <<cfgVars, reqVars, storeVars, authVars>>

\* initialize_storages() returns: lines 45 and 47 run in one segment.
InitializeStoragesReturns(t) ==
    /\ pc[t] = "await_init"
    /\ engines' = [engines EXCEPT ![rag[t]].status = "ready"]
    /\ rag_instances' = CacheAtPublish(workspace[t], rag[t])
    /\ result' = [result EXCEPT ![t] = rag_instances'[workspace[t]]]
    /\ obtained' = obtained \cup {<<workspace[t], rag_instances'[workspace[t]]>>}
    /\ pc' = [pc EXCEPT ![t] = "returned"]
    /\ UNCHANGED <<dirs, workspace, rag, cfgVars, reqVars, storeVars, authVars>>

\* initialize_storages() raises: the exception leaves get_or_create_rag.
InitializeStoragesRaises(t) ==
    /\ pc[t] = "await_init"
    /\ engines' = [engines EXCEPT ![rag[t]].status = "failed"]
    /\ rag_instances' = CacheAtFailure(workspace[t], rag[t])
    /\ pc' = [pc EXCEPT ![t] = "raised"]
    /\ UNCHANGED <<dirs, workspace, rag, result, obtained, cfgVars, reqVars, storeVars, authVars>>

\* The calling task is cancelled while suspended at line 44: asyncio throws
\* CancelledError into the coroutine at the await, which cancels the awaited
\* initialize_storages() with it (nothing shields it).
Cancel(t) ==
    /\ pc[t] = "await_init"
    /\ engines' = [engines EXCEPT ![rag[t]].status = "aborted"]
    /\ pc' = [pc EXCEPT ![t] = "cancelled"]
    /\ UNCHANGED <<rag_instances, dirs, workspace, rag, result, obtained,
                   cfgVars, reqVars, storeVars, authVars>>

\* The caller has consumed the outcome; the task may call again.
Finish(t) ==
    /\ pc[t] \in {"returned", "raised", "cancelled"}
    /\ pc' = [pc EXCEPT ![t] = "idle"]
    /\ workspace' = [workspace EXCEPT ![t] = NoneVal]
    /\ rag' = [rag EXCEPT ![t] = 0]
    /\ result' = [result EXCEPT ![t] = 0]
    /\ UNCHANGED <<rag_instances, engines, dirs, obtained, cfgVars, reqVars, storeVars, authVars>>

\* ------------------------------------------- configuration and the users
\* Python truthiness of an optional string: None and "" are false.
Truthy(v) == v # NoneVal /\ v # ""

\* Values of global_args.api_key: unset, empty, set.
ApiKeyConfigs == {NoneVal, "", "k1"}

Usernames == {"alice", "bob"}

\* UserManager.create_user line 104: workspace = f"user_{username}".
UserWorkspace(u) == CASE u = "alice" -> "user_alice" [] u = "bob" -> "user_bob"

\* user_manager.users with the accounts of S.
UserStore(S) == [u \in S |-> [workspace |-> UserWorkspace(u)]]

\* Mutant: an unknown user gets the shared workspace instead of an exception.
GetUserWorkspace_UnknownIsDefault(username) ==
    IF username \notin DOMAIN users
    THEN [raised |-> FALSE, workspace |-> NoneVal]
    ELSE [raised |-> FALSE, workspace |-> users[username].workspace]

\* UserManager.get_user_workspace: raises HTTPException(404) for an unknown
\* user, returns user.workspace otherwise.
GetUserWorkspace(username) ==
    IF username \notin DOMAIN users
    THEN [raised |-> TRUE, workspace |-> NoneVal]
    ELSE [raised |-> FALSE, workspace |-> users[username].workspace]

\* ----------------------------------------------------------- the request
\* Request paths, as character sequences (str.startswith compares characters).
P_auth_me == <<"/", "a", "u", "t", "h", "/", "m", "e">>
P_auth == <<"/", "a", "u", "t", "h">>
P_query == <<"/", "q", "u", "e", "r", "y">>
Paths == {P_auth_me, P_auth, P_query}

\* whitelist_paths passed by create_authenticated_app (lines 60-63).
whitelist_paths ==
    << <<"/", "h", "e", "a", "l", "t", "h">>,
       <<"/", "a", "u", "t", "h", "/">>,
       <<"/", "d", "o", "c", "s">>,
       <<"/", "o", "p", "e", "n", "a", "p", "i", ".", "j", "s", "o", "n">>,
       <<"/", "w", "e", "b", "u", "i">>,
       <<"/", "s", "t", "a", "t", "i", "c">>,
       <<"/", "f", "a", "v", "i", "c", "o", "n">> >>

\* str.startswith
StartsWith(s, prefix) ==
    Len(prefix) <= Len(s) /\ SubSeq(s, 1, Len(prefix)) = prefix

\* Mutant: the allow-list holds whole paths, not prefixes.
Whitelisted_Exact(path) ==
    \E i \in DOMAIN whitelist_paths : path = whitelist_paths[i]

\* dispatch line 26: any(path.startswith(wp) for wp in self.whitelist_paths)
Whitelisted(path) ==
    \E i \in DOMAIN whitelist_paths : StartsWith(path, whitelist_paths[i])

\* A session token: what validation makes of it ("ok", "expired", "invalid")
\* and the claims it carries (workspace NoneVal: no such claim).
Tokens ==
    {[verdict |-> "ok", sub |-> u, workspace |-> w] :
        u \in Usernames, w \in {NoneVal, "", "user_alice"}}
    \cup {[verdict |-> v, sub |-> "alice", workspace |-> "user_alice"] :
            v \in {"expired", "invalid"}}

NoToken == [verdict |-> "invalid", sub |-> NoneVal, workspace |-> NoneVal]

\* The Authorization header: absent (scheme NoneVal), another scheme, or
\* "Bearer <token>".
AuthHeaders ==
    {[scheme |-> NoneVal, token |-> NoToken], [scheme |-> "Basic", token |-> NoToken]}
    \cup {[scheme |-> "Bearer", token |-> tok] : tok \in Tokens}

\* The X-API-Key header: absent, empty, the configured key, another key.
ApiKeyHeaders == {NoneVal, "", "k1", "k2"}

RequestInputs ==
    [path : Paths, authorization : AuthHeaders, x_api_key : ApiKeyHeaders]

NoReq == [path |-> <<>>, authorization |-> [scheme |-> NoneVal, token |-> NoToken],
          x_api_key |-> NoneVal]

\* status.HTTP_401_UNAUTHORIZED
HTTP_401_UNAUTHORIZED == 401

NoExc == [status_code |-> 0, detail |-> NoneVal]

\* auth_handler.validate_token: raises for a token that is expired or whose
\* signature does not verify; returns username and metadata otherwise.
ValidateToken(tok) ==
    IF tok.verdict = "ok"
    THEN [raised |-> FALSE, username |-> tok.sub, workspace |-> tok.workspace]
    ELSE [raised |-> TRUE, username |-> NoneVal, workspace |-> NoneVal]

\* What dispatch does with the request: set the three attributes of
\* request.state and go on, or raise HTTPException.
SetState(u, w, a) ==
    [raise |-> FALSE, status_code |-> 0, detail |-> NoneVal,
     username |-> u, workspace |-> w, user_authenticated |-> a]

RaiseHTTP(code, detail) ==
    [raise |-> TRUE, status_code |-> code, detail |-> detail,
     username |-> NoneVal, workspace |-> NoneVal, user_authenticated |-> FALSE]

\* Mutant: the user store is consulted whatever the claims hold.
TokenWorkspace_StoreOnly(td) == GetUserWorkspace(td.username)

\* dispatch lines 37-41: the workspace claim, or the stored workspace when the
\* claim is missing or empty.
TokenWorkspace(td) ==
    IF Truthy(td.workspace)
    THEN [raised |-> FALSE, workspace |-> td.workspace]
    ELSE GetUserWorkspace(td.username)

\* dispatch lines 48-59: any exception of the try block.
OnTokenFailure ==
    IF Truthy(api_key)
    THEN RaiseHTTP(HTTP_401_UNAUTHORIZED, "Invalid authentication")
    ELSE SetState("anonymous", NoneVal, FALSE)

\* dispatch lines 33-59.
BearerOutcome(tok) ==
    LET td == ValidateToken(tok) IN
    IF td.raised THEN OnTokenFailure
    ELSE LET w == TokenWorkspace(td) IN
         IF w.raised THEN OnTokenFailure
         ELSE SetState(td.username, w.workspace, TRUE)

\* Mutant: a request that fails the API-key check goes on as anonymous.
NoBearerOutcome_NoReject(x_api_key) ==
    IF Truthy(api_key) /\ x_api_key = api_key
    THEN SetState("api_user", NoneVal, TRUE)
    ELSE SetState("anonymous", NoneVal, FALSE)

\* dispatch lines 60-78.
NoBearerOutcome(x_api_key) ==
    IF Truthy(api_key)
    THEN IF x_api_key = api_key
         THEN SetState("api_user", NoneVal, TRUE)
         ELSE RaiseHTTP(HTTP_401_UNAUTHORIZED, "Authentication required")
    ELSE SetState("anonymous", NoneVal, FALSE)

\* dispatch line 32: auth_header and auth_header.startswith("Bearer ")
IsBearer(h) == h.scheme = "Bearer"

\* Mutant: a matching X-API-Key is accepted before the Authorization header
\* is looked at.
Resolve_ApiKeyFirst(q) ==
    IF Truthy(api_key) /\ q.x_api_key = api_key
    THEN SetState("api_user", NoneVal, TRUE)
    ELSE IF IsBearer(q.authorization)
         THEN BearerOutcome(q.authorization.token)
         ELSE NoBearerOutcome(q.x_api_key)

\* dispatch lines 30-78 for a path that is not whitelisted.
Resolve(q) ==
    IF IsBearer(q.authorization)
    THEN BearerOutcome(q.authorization.token)
    ELSE NoBearerOutcome(q.x_api_key)

\* Starlette's add_middleware inserts at the head of app.user_middleware, and
\* the stack is built so that the head is outermost: the middleware that is
\* registered last runs first.
AddMiddleware(chain, mw) == <<mw>> \o chain

\* create_authenticated_app: add_middleware(WorkspaceMiddleware) at line 58,
\* then @app.middleware("http") on inject_workspace_rag at line 70.
user_middleware ==
    AddMiddleware(AddMiddleware(<<>>, "WorkspaceMiddleware"), "inject_workspace_rag")

\* A request arrives: it enters the chain at its outermost middleware, with
\* an empty request.state.
NewRequest(r, q) ==
    /\ rpc[r] = "idle"
    /\ rpc' = [rpc EXCEPT ![r] = "chain"]
    /\ req' = [req EXCEPT ![r] = q]
    /\ pos' = [pos EXCEPT ![r] = 1]
    /\ state' = [state EXCEPT ![r] = <<>>]
    /\ ran' = [ran EXCEPT ![r] = <<>>]
    /\ exc' = [exc EXCEPT ![r] = NoExc]
    /\ UNCHANGED <<regVars, cfgVars, storeVars, authVars>>

\* WorkspaceMiddleware.dispatch up to its call_next or its raise.
Dispatch(r) ==
    /\ rpc[r] = "chain"
    /\ pos[r] \in DOMAIN user_middleware
    /\ user_middleware[pos[r]] = "WorkspaceMiddleware"
    /\ ran' = [ran EXCEPT ![r] = Append(@, "WorkspaceMiddleware")]
    /\ IF Whitelisted(req[r].path)
       THEN /\ pos' = [pos EXCEPT ![r] = @ + 1]
            /\ UNCHANGED <<rpc, state, exc>>
       ELSE LET o == Resolve(req[r]) IN
            IF o.raise
            THEN /\ rpc' = [rpc EXCEPT ![r] = "rejected"]
                 /\ exc' = [exc EXCEPT ![r] =
                              [status_code |-> o.status_code, detail |-> o.detail]]
                 /\ UNCHANGED <<pos, state>>
            ELSE /\ state' = [state EXCEPT ![r] =
                       DictSet(DictSet(DictSet(@, "username", o.username),
                                       "workspace", o.workspace),
                               "user_authenticated", o.user_authenticated)]
                 /\ pos' = [pos EXCEPT ![r] = @ + 1]
                 /\ UNCHANGED <<rpc, exc>>
    /\ UNCHANGED <<req, regVars, cfgVars, storeVars, authVars>>

\* inject_workspace_rag (lines 70-77) up to its call_next. The awaited
\* get_or_create_rag is taken from its call to its return: registered as it
\* is, this middleware runs before WorkspaceMiddleware has set
\* request.state.workspace, so the call is never made.
InjectWorkspaceRag(r) ==
    /\ rpc[r] = "chain"
    /\ pos[r] \in DOMAIN user_middleware
    /\ user_middleware[pos[r]] = "inject_workspace_rag"
    /\ ran' = [ran EXCEPT ![r] = Append(@, "inject_workspace_rag")]
    /\ IF "workspace" \in DOMAIN state[r]
       THEN LET ws == Key(state[r].workspace) IN
            IF ~MustConstruct(ws)
            THEN /\ state' = [state EXCEPT ![r] = DictSet(@, "rag", CachedHandle(ws))]
                 /\ pos' = [pos EXCEPT ![r] = @ + 1]
                 /\ UNCHANGED <<rpc, rag_instances, engines, dirs>>
            ELSE \/ /\ Len(engines) < MaxConstructions
                    /\ engines' = Append(engines, [NewEngine(ws) EXCEPT !.status = "ready"])
                    /\ rag_instances' = DictSet(rag_instances, ws, Len(engines) + 1)
                    /\ dirs' = dirs \cup {ws}
                    /\ state' = [state EXCEPT ![r] = DictSet(@, "rag", Len(engines) + 1)]
                    /\ pos' = [pos EXCEPT ![r] = @ + 1]
                    /\ UNCHANGED rpc
                 \/ /\ rpc' = [rpc EXCEPT ![r] = "error"]
                    /\ UNCHANGED <<pos, state, rag_instances, engines, dirs>>
       ELSE /\ pos' = [pos EXCEPT ![r] = @ + 1]
            /\ UNCHANGED <<rpc, state, rag_instances, engines, dirs>>
    /\ UNCHANGED <<req, exc, pc, workspace, rag, result, obtained, cfgVars, storeVars, authVars>>

\* Every middleware has called call_next: the route handler runs with the
\* request.state the chain has left.
Handler(r) ==
    /\ rpc[r] = "chain"
    /\ pos[r] = Len(user_middleware) + 1
    /\ ran' = [ran EXCEPT ![r] = Append(@, "handler")]
    /\ rpc' = [rpc EXCEPT ![r] = "handled"]
    /\ UNCHANGED <<req, pos, state, exc, regVars, cfgVars, storeVars, authVars>>

\* The response (or the error) has left the server; request.state is dropped.
FinishRequest(r) ==
    /\ rpc[r] \in {"handled", "rejected", "error"}
    /\ rpc' = [rpc EXCEPT ![r] = "idle"]
    /\ req' = [req EXCEPT ![r] = NoReq]
    /\ pos' = [pos EXCEPT ![r] = 0]
    /\ state' = [state EXCEPT ![r] = <<>>]
    /\ ran' = [ran EXCEPT ![r] = <<>>]
    /\ exc' = [exc EXCEPT ![r] = NoExc]
    /\ UNCHANGED <<regVars, cfgVars, storeVars, authVars>>

\* ------------------------------------------------------- the user store
\* Times the clock is advanced.
MaxTicks == 2

Emails == {"a@bosch.com", "b@bosch.com"}

\* Passwords, as character sequences (line 89 concatenates password and salt).
Passwords == {<<"p">>, <<"p", "0">>}

\* Values of secrets.token_hex: hexadecimal strings of one fixed length.
Salts == {<<"0", "a">>, <<"0", "b">>}

\* hashlib.sha256(...).hexdigest(), taken as injective.
Sha256(s) == <<"sha256", s>>

\* UserManager._hash_password
HashPassword(password, salt) == Sha256(password \o salt)

\* last_login: Optional[datetime] = None
NoTime == -1

\* The return value None of authenticate, get_user and update_user.
NoUser ==
    [username |-> NoneVal, email |-> NoneVal, password_hash |-> <<>>,
     salt |-> <<>>, created_at |-> NoTime, last_login |-> NoTime,
     is_active |-> FALSE, workspace |-> NoneVal, metadata |-> <<>>]

\* del d[k]
DictDel(d, k) == [x \in (DOMAIN d) \ {k} |-> d[x]]

HTTP_409_CONFLICT == 409

\* Mutant: a username in use is not noticed.
UsernameTaken_Never(username) == FALSE

\* create_user line 93: username in self.users
UsernameTaken(username) == username \in DOMAIN users

\* create_user lines 100-113: the User object, last_login, is_active and
\* metadata at their defaults.
NewUser(username, email, password, salt) ==
    [username |-> username, email |-> email,
     password_hash |-> HashPassword(password, salt), salt |-> salt,
     created_at |-> now, last_login |-> NoTime, is_active |-> TRUE,
     workspace |-> UserWorkspace(username), metadata |-> <<>>]

\* UserManager.create_user: what it raises, the map it leaves, what it returns.
CreateUser(username, email, password, salt) ==
    IF UsernameTaken(username)
    THEN [status_code |-> HTTP_409_CONFLICT, users |-> users, user |-> NoUser]
    ELSE LET user == NewUser(username, email, password, salt) IN
         [status_code |-> 0, users |-> DictSet(users, username, user),
          user |-> user]

\* Mutant: an inactive account is let through.
Refused_ActiveIgnored(username) == username \notin DOMAIN users

\* authenticate lines 121-123: not user or not user.is_active
Refused(username) ==
    username \notin DOMAIN users \/ ~users[username].is_active

\* Mutant: the password is hashed without the stored salt.
PasswordMatches_Unsalted(username, password) ==
    HashPassword(password, <<>>) = users[username].password_hash

\* authenticate lines 126-128
PasswordMatches(username, password) ==
    HashPassword(password, users[username].salt) = users[username].password_hash

\* UserManager.authenticate: the map it leaves and what it returns.
Authenticate(username, password) ==
    IF Refused(username)
    THEN [users |-> users, user |-> NoUser]
    ELSE IF ~PasswordMatches(username, password)
         THEN [users |-> users, user |-> NoUser]
         ELSE LET user == [users[username] EXCEPT !.last_login = now] IN
              [users |-> [users EXCEPT ![username] = user], user |-> user]

\* UserManager.get_user
GetUser(username) ==
    IF username \in DOMAIN users THEN users[username] ELSE NoUser

\* Mutant: workspace can be set through update_user.
allowed_fields_WithWorkspace == {"email", "is_active", "metadata", "workspace"}

\* update_user line 149
allowed_fields == {"email", "is_active", "metadata"}

\* Keyword arguments update_user is called with.
UpdateKwargs ==
    {[email |-> e] : e \in Emails}
    \cup {[is_active |-> b] : b \in BOOLEAN}
    \cup {[password |-> p] : p \in Passwords}
    \cup {[workspace |-> "user_bob", created_at |-> 0, last_login |-> 0],
          [workspace |-> "elsewhere", email |-> "b@bosch.com"]}

\* The same, with a metadata keyword.
UpdateKwargsWithMetadata == UpdateKwargs \cup {[metadata |-> <<"m">>]}

\* Mutant: every keyword is assigned.
Assigns_AnyKeyword(field, kwargs) == field \in DOMAIN kwargs

\* update_user lines 150-151: the fields that are assigned.
Assigns(field, kwargs) == field \in allowed_fields /\ field \in DOMAIN kwargs

\* update_user (lines 142-159) of a UserManager whose map is self_users: the
\* map it leaves and what it returns.
UpdateUserOf(self_users, username, kwargs, salt) ==
    IF username \notin DOMAIN self_users
    THEN [users |-> self_users, user |-> NoUser]
    ELSE LET u0 == self_users[username]
             u1 == [f \in DOMAIN u0 |->
                      IF Assigns(f, kwargs) THEN kwargs[f] ELSE u0[f]]
             user == IF "password" \in DOMAIN kwargs
                     THEN [u1 EXCEPT !.salt = salt,
                                     !.password_hash =
                                         HashPassword(kwargs.password, salt)]
                     ELSE u1
         IN [users |-> [self_users EXCEPT ![username] = user], user |-> user]

\* user_manager.update_user, on the map of the serving process.
UpdateUser(username, kwargs, salt) ==
    UpdateUserOf(users, username, kwargs, salt)

\* delete_user (lines 161-166) of a UserManager whose map is self_users: the
\* map it leaves and what it returns.
DeleteUserOf(self_users, username) ==
    IF username \in DOMAIN self_users
    THEN [users |-> DictDel(self_users, username), deleted |-> TRUE]
    ELSE [users |-> self_users, deleted |-> FALSE]

\* user_manager.delete_user, on the map of the serving process.
DeleteUser(username) == DeleteUserOf(users, username)

NoCall ==
    [op |-> NoneVal, username |-> NoneVal, email |-> NoneVal,
     password |-> <<>>, keys |-> {}, status_code |-> 0, user |-> NoUser,
     deleted |-> FALSE]

\* A caller creates an account.
CallCreateUser(username, email, password) ==
    \E salt \in Salts :
        LET o == CreateUser(username, email, password, salt) IN
        /\ users' = o.users
        /\ last_call' = [NoCall EXCEPT !.op = "create_user",
                            !.username = username, !.email = email,
                            !.password = password,
                            !.status_code = o.status_code, !.user = o.user]
        /\ UNCHANGED <<now, api_key, regVars, reqVars, authVars>>

\* A caller checks a password.
CallAuthenticate(username, password) ==
    LET o == Authenticate(username, password) IN
    /\ users' = o.users
    /\ last_call' = [NoCall EXCEPT !.op = "authenticate",
                        !.username = username, !.password = password,
                        !.user = o.user]
    /\ UNCHANGED <<now, api_key, regVars, reqVars, authVars>>

\* A caller updates an account.
CallUpdateUser(username, kwargs) ==
    \E salt \in Salts :
        LET o == UpdateUser(username, kwargs, salt) IN
        /\ users' = o.users
        /\ last_call' = [NoCall EXCEPT !.op = "update_user",
                            !.username = username,
                            !.keys = DOMAIN kwargs, !.user = o.user]
        /\ UNCHANGED <<now, api_key, regVars, reqVars, authVars>>

\* A caller deletes an account.
CallDeleteUser(username) ==
    LET o == DeleteUser(username) IN
    /\ users' = o.users
    /\ last_call' = [NoCall EXCEPT !.op = "delete_user",
                        !.username = username, !.deleted = o.deleted]
    /\ UNCHANGED <<now, api_key, regVars, reqVars, authVars>>

\* -------------------------------------------------------- the users file
\* datetime.isoformat(): a string that denotes the time.
IsoFormat(t) == <<"iso", t>>

\* Whether datetime.fromisoformat accepts the string (it raises ValueError
\* otherwise).
IsIsoFormat(s) == Len(s) = 2 /\ s[1] = "iso"

\* datetime.fromisoformat
FromIsoFormat(s) == s[2]

\* JSON's null, which json.dumps writes for None.
Null == <<>>

\* _save_users lines 77-81: user.dict() with created_at, and last_login when
\* it is set, as ISO strings.
UserDict(user) ==
    [user EXCEPT !.created_at = IsoFormat(@),
                 !.last_login = IF @ # NoTime THEN IsoFormat(@) ELSE Null]

\* _save_users lines 75-82 of a UserManager whose map is self_users: the
\* dict that is written.
SaveDataOf(self_users) ==
    [u \in DOMAIN self_users |-> UserDict(self_users[u])]

\* The dict user_manager._save_users writes in the serving process, built
\* from its map before the coroutine first suspends.
SaveData == SaveDataOf(users)

\* The order in which the keys of a dict are written (the model keeps no
\* insertion order: the keys are written in this fixed order).
KeyOrder == <<"alice", "bob">>

\* json.dumps(data, indent=2): the text, as a sequence of tokens: the opening
\* brace, one token <<key, value>> per entry, the closing brace.
JsonDumps(data) ==
    LET ks == SelectSeq(KeyOrder, LAMBDA k : k \in DOMAIN data) IN
    <<<<"{">>>> \o [i \in 1..Len(ks) |-> <<ks[i], data[ks[i]]>>] \o <<<<"}">>>>

\* Whether json.load accepts the text: one object from the first token to
\* the last, and nothing else.
JsonWellFormed(text) ==
    /\ Len(text) >= 2
    /\ text[1] = <<"{">>
    /\ text[Len(text)] = <<"}">>
    /\ \A i \in 2..(Len(text) - 1) : Len(text[i]) = 2

\* json.load on a well-formed text: the entries in the order of the text.
JsonItems(text) == SubSeq(text, 2, Len(text) - 1)

\* A file: whether it exists, and its content.
NoFile == [exists |-> FALSE, text |-> <<>>]

\* open(path, 'w'): the file is created, or truncated to length zero.
OpenForWriting(file) == [exists |-> TRUE, text |-> <<>>]

\* The file after s has been written through a handle whose position is
\* offset (the handle's own position, 0 at open): what lies beyond the
\* written part stays, and a gap before it reads as zero bytes.
WriteAt(file, offset, s) ==
    [file EXCEPT !.text =
        [i \in 1..(IF Len(@) > offset + Len(s) THEN Len(@)
                   ELSE IF Len(s) = 0 THEN Len(@) ELSE offset + Len(s)) |->
            IF i > offset /\ i <= offset + Len(s) THEN s[i - offset]
            ELSE IF i <= Len(@) THEN @[i] ELSE <<>>]]

\* _save_users lines 84-85 run without another operation on the file in
\* between: the file holds exactly the text of data.
FileOf(data) == WriteAt(OpenForWriting(NoFile), 0, JsonDumps(data))

\* _load_users lines 41-45 for one entry: whether the conversions and
\* User(**user_data) succeed.
ValidUserData(user_data) ==
    /\ IsIsoFormat(user_data.created_at)
    /\ user_data.last_login # Null => IsIsoFormat(user_data.last_login)

\* Lines 41-45: the User object of an entry.
UserOfData(user_data) ==
    [user_data EXCEPT !.created_at = FromIsoFormat(@),
                      !.last_login = IF @ # Null THEN FromIsoFormat(@)
                                     ELSE NoTime]

\* Lines 39-45: the loop over the items, which stops at the first entry that
\* raises; `loaded` is self.users as the loop has filled it so far.
RECURSIVE LoadItems(_, _)
LoadItems(items, loaded) ==
    IF items = <<>> THEN [raised |-> FALSE, users |-> loaded]
    ELSE LET username == Head(items)[1]
             user_data == Head(items)[2]
         IN IF ~ValidUserData(user_data)
            THEN [raised |-> TRUE, users |-> loaded]
            ELSE LoadItems(Tail(items),
                           DictSet(loaded, username, UserOfData(user_data)))

\* Mutant: the records loaded before the failure are kept.
OnLoadError_KeepLoaded(loaded) == loaded

\* Lines 46-48: except Exception: self.users = {}
OnLoadError(loaded) == <<>>

\* AUTH_ACCOUNTS settings: unset, one account, two accounts, and a list
\* that names alice twice. Each account is <<username, password>>.
AuthAccountsConfigs ==
    {<<>>,
     <<<<"alice", <<"p">>>>>>,
     <<<<"alice", <<"p">>>>, <<"bob", <<"p", "0">>>>>>,
     <<<<"alice", <<"p">>>>, <<"alice", <<"p", "0">>>>>>}

\* _init_from_env line 67: email = f"{username}@bosch.com"
DefaultEmail(username) ==
    CASE username = "alice" -> "alice@bosch.com"
      [] username = "bob" -> "bob@bosch.com"

\* _init_from_env lines 59-71, from an empty map: create_user for each
\* account in turn; an account whose create_user raises is skipped. salts[i]
\* is the salt drawn for account i.
RECURSIVE InitFromEnv(_, _, _)
InitFromEnv(auth_accounts, salts, seeded) ==
    IF auth_accounts = <<>> THEN seeded
    ELSE LET username == Head(auth_accounts)[1]
             password == Head(auth_accounts)[2]
             user == NewUser(username, DefaultEmail(username), password,
                             Head(salts))
         IN InitFromEnv(Tail(auth_accounts), Tail(salts),
                        IF username \in DOMAIN seeded THEN seeded
                        ELSE DictSet(seeded, username, user))

\* UserManager.__init__ (lines 28-51): the user map of a process that starts
\* with this users file and this AUTH_ACCOUNTS setting.
LoadUsers(file, auth_accounts, salts) ==
    IF file.exists
    THEN IF ~JsonWellFormed(file.text) THEN OnLoadError(<<>>)
         ELSE LET l == LoadItems(JsonItems(file.text), <<>>) IN
              IF l.raised THEN OnLoadError(l.users) ELSE l.users
    ELSE InitFromEnv(auth_accounts, salts, <<>>)

\* ---------------------------------------------------------------- tokens
\* create_token line 75: timedelta(hours=48)
TOKEN_EXPIRE_HOURS == 48

\* SECRET_KEY (line 51), at its default.
SECRET_KEY == "bosch-graph2rag-secret-2025"

\* USERS (lines 55-71)
USERS ==
    [admin |-> [password |-> "admin123", email |-> "admin@bosch.com",
                workspace |-> "user_admin"],
     demo |-> [password |-> "demo123", email |-> "demo@bosch.com",
               workspace |-> "user_demo"],
     waiyan |-> [password |-> "password123", email |-> "waiyan@bosch.com",
                 workspace |-> "user_waiyan"]]

NoPayload ==
    [sub |-> NoneVal, exp |-> NoTime, workspace |-> NoneVal, email |-> NoneVal]

\* jwt.encode(payload, key, algorithm="HS256"): the claims and a signature
\* that verifies under key only.
JwtEncode(payload, key) == [payload |-> payload, signed_with |-> key]

NoJwt == JwtEncode(NoPayload, NoneVal)

\* jwt.decode(token, key, algorithms=["HS256"]): the signature is verified
\* first, then exp against the clock (expired when exp <= now).
JwtDecode(token, key) ==
    IF token.signed_with # key
    THEN [error |-> "InvalidSignatureError", payload |-> NoPayload]
    ELSE IF token.payload.exp <= now
         THEN [error |-> "ExpiredSignatureError", payload |-> NoPayload]
         ELSE [error |-> NoneVal, payload |-> token.payload]

\* Mutant: the token expires after 24 hours.
Expire_OneDay == now + 24

\* create_token line 75
Expire == now + TOKEN_EXPIRE_HOURS

\* integrated_auth_server.create_token
CreateToken(username) ==
    JwtEncode([sub |-> username, exp |-> Expire,
               workspace |-> USERS[username].workspace,
               email |-> USERS[username].email], SECRET_KEY)

\* Mutant: a token is accepted only while its subject has an active account.
VerifyToken_ChecksAccount(token) ==
    LET d == JwtDecode(token, SECRET_KEY) IN
    IF d.error # NoneVal \/ Refused(token.payload.sub)
    THEN [status_code |-> HTTP_401_UNAUTHORIZED, detail |-> "Invalid token",
          payload |-> NoPayload]
    ELSE [status_code |-> 0, detail |-> NoneVal, payload |-> d.payload]

\* integrated_auth_server.verify_token: every jwt.PyJWTError, expiry and bad
\* signature alike, becomes HTTPException(401, "Invalid token").
VerifyToken(token) ==
    LET d == JwtDecode(token, SECRET_KEY) IN
    IF d.error # NoneVal
    THEN [status_code |-> HTTP_401_UNAUTHORIZED, detail |-> "Invalid token",
          payload |-> NoPayload]
    ELSE [status_code |-> 0, detail |-> NoneVal, payload |-> d.payload]

\* auth_handler.create_token(username, role, metadata): the session claims,
\* expiring after the same time to live, signed with the server's secret.
AuthCreateToken(username, metadata) ==
    JwtEncode([sub |-> username, exp |-> Expire,
               workspace |-> metadata.workspace, email |-> metadata.email],
              SECRET_KEY)

\* auth_handler.validate_token: raises 401 for a token that is expired or
\* whose signature does not verify; returns the username otherwise.
AuthValidateToken(token) ==
    LET d == JwtDecode(token, SECRET_KEY) IN
    IF d.error = "ExpiredSignatureError"
    THEN [status_code |-> HTTP_401_UNAUTHORIZED, detail |-> "Token expired",
          username |-> NoneVal]
    ELSE IF d.error # NoneVal
         THEN [status_code |-> HTTP_401_UNAUTHORIZED,
               detail |-> "Invalid token", username |-> NoneVal]
         ELSE [status_code |-> 0, detail |-> NoneVal,
               username |-> d.payload.sub]

\* Time passes: half the life of a token.
TickHours == TOKEN_EXPIRE_HOURS \div 2

Tick ==
    /\ now + TickHours <= MaxTicks * TickHours
    /\ now' = now + TickHours
    /\ UNCHANGED <<last_call, cfgVars, regVars, reqVars, authVars>>

\* The client stores the token of its latest login in place of the one it
\* had.
Receive(token) == IF token = NoJwt THEN issued ELSE {token}

\* Tokens a client can present: the one it holds, and the same claims signed
\* with a secret of its own.
Presented ==
    issued \cup {JwtEncode(t.payload, "another-secret") : t \in issued}

\* ---------------------------------------------------- the two servers
\* Handlers of the API server that can be suspended in _save_users at once.
NumHandlers == 2

Handlers == 1..NumHandlers

HTTP_404_NOT_FOUND == 404

HTTP_400_BAD_REQUEST == 400

NoResp ==
    [server |-> NoneVal, route |-> NoneVal, req_username |-> NoneVal,
     req_email |-> NoneVal, req_password |-> <<>>, req_token |-> NoJwt, status_code |-> 0, detail |-> NoneVal,
     access_token |-> NoJwt, username |-> NoneVal, email |-> NoneVal,
     workspace |-> NoneVal, is_active |-> FALSE]

\* The response of a handler that raises HTTPException(status_code, detail).
Raised(r, status_code, detail) ==
    [r EXCEPT !.status_code = status_code, !.detail = detail]

\* The response of a handler that returns.
Returned(r, token, username, email, ws, is_active) ==
    [r EXCEPT !.status_code = 200, !.access_token = token,
              !.username = username, !.email = email, !.workspace = ws,
              !.is_active = is_active]

\* A handler that is not suspended in _save_users.
NoPending ==
    [active |-> FALSE, phase |-> NoneVal, data |-> <<>>, written |-> 0,
     resp |-> NoResp]

\* Handler h calls `await user_manager._save_users()`: lines 75-82 run, with
\* the map as the handler has left it, and the coroutine suspends in
\* aiofiles.open; r is the response the handler returns after the save.
AwaitSaveUsers(h, r) ==
    [pending EXCEPT ![h] = [active |-> TRUE, phase |-> "open",
                            data |-> SaveData', written |-> 0, resp |-> r]]

\* The responses the suspended handlers return after their saves.
PendingResponses == {pending[h].resp : h \in Handlers}

\* Mutant: an unknown username is told apart.
LoginRefusal_Revealing(username) ==
    IF username \in DOMAIN users THEN "Invalid username or password"
    ELSE "User not found"

\* auth_routes.login line 44
LoginRefusal(username) == "Invalid username or password"

\* Mutant: the token names the shared workspace.
LoginMetadata_Shared(user) == [email |-> user.email, workspace |-> "default"]

\* auth_routes.login lines 51-54
LoginMetadata(user) == [email |-> user.email, workspace |-> user.workspace]

\* auth_routes.login up to `await user_manager._save_users()`, or to its raise.
Login(h, username, password) ==
    LET a == Authenticate(username, password)
        r == [NoResp EXCEPT !.server = "api", !.route = "login",
                            !.req_username = username,
                            !.req_password = password]
        token == AuthCreateToken(a.user.username, LoginMetadata(a.user))
    IN /\ running
       /\ IF a.user = NoUser
          THEN /\ resp' = Raised(r, HTTP_401_UNAUTHORIZED, LoginRefusal(username))
               /\ UNCHANGED <<users, pending>>
          ELSE /\ ~pending[h].active
               /\ users' = a.users
               /\ pending' =
                    AwaitSaveUsers(h, Returned(r, token, a.user.username,
                                               a.user.email, a.user.workspace,
                                               FALSE))
               /\ UNCHANGED resp
       /\ UNCHANGED <<users_file, issued, running, api_key, now, last_call,
                      regVars, reqVars>>

\* Mutant: the new record is not in the map when the handler suspends.
StoredBeforeAwait_Deferred(c) == users

\* create_user line 115, reached before register's first await: the map
\* holds the new record when the handler suspends in _save_users.
StoredBeforeAwait(c) == c.users

\* auth_routes.register up to `await user_manager._save_users()`, or to its
\* raise: the HTTPException of create_user is re-raised as it is (its detail
\* is kept without the username it quotes).
Register(h, username, email, password) ==
    \E salt \in Salts :
        LET c == CreateUser(username, email, password, salt)
            r == [NoResp EXCEPT !.server = "api", !.route = "register",
                                !.req_username = username,
                                !.req_email = email,
                                !.req_password = password]
        IN /\ running
           /\ IF c.status_code # 0
              THEN /\ resp' = Raised(r, c.status_code, "User already exists")
                   /\ UNCHANGED <<users, pending>>
              ELSE /\ ~pending[h].active
                   /\ users' = StoredBeforeAwait(c)
                   /\ pending' =
                        AwaitSaveUsers(h, Returned(r, NoJwt, c.user.username,
                                                   c.user.email,
                                                   c.user.workspace,
                                                   c.user.is_active))
                   /\ UNCHANGED resp
           /\ UNCHANGED <<users_file, issued, running, api_key, now,
                          last_call, regVars, reqVars>>

\* Mutant: the old password is not checked.
OldPasswordRefused_Never(username, old_password) == FALSE

\* auth_routes.change_password lines 132-133: authenticate returns None.
OldPasswordRefused(username, old_password) ==
    Authenticate(username, old_password).user = NoUser

\* auth_routes.change_password up to `await user_manager._save_users()`, or
\* to its raise. authenticate sets last_login before update_user runs.
ChangePassword(h, token, old_password, new_password) ==
    \E salt \in Salts :
        LET v == AuthValidateToken(token)
            r == [NoResp EXCEPT !.server = "api", !.route = "change-password",
                                !.req_token = token,
                                !.req_password = old_password]
            a == Authenticate(v.username, old_password)
            u == UpdateUserOf(IF a.user = NoUser THEN users ELSE a.users,
                              v.username, [password |-> new_password], salt)
        IN /\ running
           /\ IF v.status_code # 0
              THEN /\ resp' = Raised(r, v.status_code, v.detail)
                   /\ UNCHANGED <<users, pending>>
              ELSE IF OldPasswordRefused(v.username, old_password)
                   THEN /\ resp' = Raised(r, HTTP_401_UNAUTHORIZED,
                                          "Invalid password")
                        /\ UNCHANGED <<users, pending>>
                   ELSE /\ ~pending[h].active
                        /\ users' = u.users
                        /\ pending' =
                             AwaitSaveUsers(h,
                                 [r EXCEPT !.status_code = 200,
                                           !.detail =
                                             "Password changed successfully"])
                        /\ UNCHANGED resp
           /\ UNCHANGED <<users_file, issued, running, api_key, now,
                          last_call, regVars, reqVars>>

\* The suspended handler h resumes after _save_users and returns its
\* response; the client keeps the token of a login.
HandlerReturns(h) ==
    /\ resp' = pending[h].resp
    /\ issued' = Receive(pending[h].resp.access_token)
    /\ pending' = [pending EXCEPT ![h] = NoPending]

\* _save_users lines 84-85 of handler h, run without another operation on
\* the file in between, and the handler's return.
SaveUsersReturns(h) ==
    /\ running
    /\ pending[h].active /\ pending[h].phase = "open"
    /\ users_file' = FileOf(pending[h].data)
    /\ HandlerReturns(h)
    /\ UNCHANGED <<users, running, api_key, now, last_call, regVars, reqVars>>

\* Line 84 of handler h, on its own: aiofiles.open(self.users_file, 'w') runs
\* in a worker thread and the coroutine suspends in f.write.
SaveOpen(h) ==
    /\ running
    /\ pending[h].active /\ pending[h].phase = "open"
    /\ users_file' = OpenForWriting(users_file)
    /\ pending' = [pending EXCEPT ![h].phase = "write"]
    /\ UNCHANGED <<users, issued, resp, running, api_key, now, last_call,
                   regVars, reqVars>>

\* Line 85 of handler h: f.write(json.dumps(data, indent=2)) runs in a
\* worker thread; the file object buffers the text, and passes on to the
\* file the first n tokens of it: none of a text that fits into its buffer,
\* a part of a longer one. The coroutine suspends in the close of
\* `async with`.
SaveWrite(h, n) ==
    /\ running
    /\ pending[h].active /\ pending[h].phase = "write"
    /\ n \in 0..Len(JsonDumps(pending[h].data))
    /\ users_file' =
          WriteAt(users_file, 0, SubSeq(JsonDumps(pending[h].data), 1, n))
    /\ pending' = [pending EXCEPT ![h].phase = "close", ![h].written = n]
    /\ UNCHANGED <<users, issued, resp, running, api_key, now, last_call,
                   regVars, reqVars>>

\* The end of `async with` of handler h: close() flushes what is left in the
\* buffer at the handle's position, and the handler returns.
SaveClose(h) ==
    /\ running
    /\ pending[h].active /\ pending[h].phase = "close"
    /\ users_file' =
          LET text == JsonDumps(pending[h].data) IN
          WriteAt(users_file, pending[h].written,
                  SubSeq(text, pending[h].written + 1, Len(text)))
    /\ HandlerReturns(h)
    /\ UNCHANGED <<users, running, api_key, now, last_call, regVars, reqVars>>

\* Mutant: the failure of the save is swallowed and the handler returns its
\* response.
SaveFailure_Swallowed(r) == r

\* What the client of a handler gets when its `await _save_users()` raises:
\* register turns any Exception into HTTPException(400, str(e)) (lines
\* 86-90); login and change_password let it through, which the server
\* answers with 500.
SaveFailure(r) ==
    IF r.route = "register"
    THEN Raised([NoResp EXCEPT !.server = r.server, !.route = r.route,
                               !.req_username = r.req_username,
                               !.req_email = r.req_email,
                               !.req_password = r.req_password],
                HTTP_400_BAD_REQUEST, "OSError")
    ELSE Raised([NoResp EXCEPT !.server = r.server, !.route = r.route,
                               !.req_username = r.req_username,
                               !.req_password = r.req_password,
                               !.req_token = r.req_token],
                500, "Internal Server Error")

\* _save_users of handler h raises OSError: in aiofiles.open (the file is
\* left as it is), or in f.write or the close, after the file was truncated.
\* The exception leaves _save_users and reaches the handler; the user map
\* stays as the handler has left it.
SaveRaises(h) ==
    /\ running
    /\ pending[h].active
    /\ resp' = SaveFailure(pending[h].resp)
    /\ pending' = [pending EXCEPT ![h] = NoPending]
    /\ UNCHANGED <<users, users_file, issued, running, api_key, now,
                   last_call, regVars, reqVars>>

\* auth_routes.get_current_user
GetCurrentUser(token) ==
    LET v == AuthValidateToken(token)
        user == GetUser(v.username)
        r == [NoResp EXCEPT !.server = "api", !.route = "me", !.req_token = token]
    IN /\ running
       /\ resp' = IF v.status_code # 0
                  THEN Raised(r, v.status_code, v.detail)
                  ELSE IF user = NoUser
                       THEN Raised(r, HTTP_404_NOT_FOUND, "User not found")
                       ELSE Returned(r, NoJwt, user.username, user.email,
                                     user.workspace, user.is_active)
       /\ UNCHANGED <<users, users_file, issued, pending, running, api_key,
                      now, last_call, regVars, reqVars>>

\* auth_routes.logout
Logout(token) ==
    LET v == AuthValidateToken(token)
        r == [NoResp EXCEPT !.server = "api", !.route = "logout",
                            !.req_token = token]
    IN /\ running
       /\ resp' = IF v.status_code # 0
                  THEN Raised(r, v.status_code, v.detail)
                  ELSE [r EXCEPT !.status_code = 200,
                                 !.detail = "Logged out successfully"]
       /\ UNCHANGED <<users, users_file, issued, pending, running, api_key,
                      now, last_call, regVars, reqVars>>

\* Usernames and passwords tried at the portal.
PortalNames == {"admin", "demo", "waiyan", "nobody"}
PortalPasswords == {"admin123", "demo123", "password123"}

\* integrated_auth_server.login
PortalLogin(username, password) ==
    LET r == [NoResp EXCEPT !.server = "portal", !.route = "login",
                            !.req_username = username]
    IN /\ IF username \notin DOMAIN USERS
          THEN /\ resp' = Raised(r, HTTP_401_UNAUTHORIZED,
                                 "Invalid username or password")
               /\ UNCHANGED issued
          ELSE IF USERS[username].password # password
               THEN /\ resp' = Raised(r, HTTP_401_UNAUTHORIZED,
                                      "Invalid username or password")
                    /\ UNCHANGED issued
               ELSE LET token == CreateToken(username) IN
                    /\ resp' = Returned(r, token, username, NoneVal, NoneVal, FALSE)
                    /\ issued' = Receive(token)
       /\ UNCHANGED <<users, users_file, pending, running, api_key, now,
                      last_call, regVars, reqVars>>

\* integrated_auth_server.verify_token_endpoint
PortalVerify(token) ==
    LET v == VerifyToken(token)
        r == [NoResp EXCEPT !.server = "portal", !.route = "verify",
                            !.req_token = token]
    IN /\ resp' = IF v.status_code # 0
                  THEN Raised(r, v.status_code, v.detail)
                  ELSE Returned(r, NoJwt, v.payload.sub, v.payload.email,
                                v.payload.workspace, FALSE)
       /\ UNCHANGED <<users, users_file, issued, pending, running, api_key,
                      now, last_call, regVars, reqVars>>

\* integrated_auth_server.logout: no credentials are read.
PortalLogout ==
    /\ resp' = [NoResp EXCEPT !.server = "portal", !.route = "logout",
                  !.status_code = 200,
                  !.detail = "Please remove token from client storage"]
    /\ UNCHANGED <<users, users_file, issued, pending, running, api_key, now,
                   last_call, regVars, reqVars>>

\* ------------------------------------- processes and the command line
\* The environment of a process that starts: its AUTH_ACCOUNTS setting and
\* the salts secrets.token_hex gives it while it seeds accounts.
NoEnv == [auth_accounts |-> <<>>, salts |-> <<>>]

Envs ==
    {[auth_accounts |-> a, salts |-> <<s, t>>] :
        a \in AuthAccountsConfigs, s \in Salts, t \in Salts}

\* The API server process ends, at whatever point it has reached: its user
\* map and its suspended handlers are gone, the users file stays as it is.
Stop ==
    /\ running
    /\ running' = FALSE
    /\ users' = <<>>
    /\ pending' = [h \in Handlers |-> NoPending]
    /\ UNCHANGED <<users_file, issued, resp, api_key, now, last_call,
                   regVars, reqVars>>

\* The API server process starts: the import of user_manager runs
\* UserManager() (line 179), which loads the users file or seeds the
\* accounts of AUTH_ACCOUNTS.
Start(env) ==
    /\ ~running
    /\ running' = TRUE
    /\ users' = LoadUsers(users_file, env.auth_accounts, env.salts)
    /\ UNCHANGED <<users_file, issued, resp, pending, api_key, now,
                   last_call, regVars, reqVars>>

\* manage_users.delete_user, after its prompts, in a process of its own: the
\* import runs UserManager(), then delete_user and, if it deleted, _save_users
\* run to completion. The map of the server process is not touched.
CliDeleteUser(username, env) ==
    LET d == DeleteUserOf(LoadUsers(users_file, env.auth_accounts, env.salts),
                          username)
    IN /\ users_file' = IF d.deleted THEN FileOf(SaveDataOf(d.users))
                        ELSE users_file
       /\ UNCHANGED <<users, issued, resp, pending, running, api_key, now,
                      last_call, regVars, reqVars>>

\* manage_users.toggle_user_status, in a process of its own.
CliToggleUserStatus(username, env) ==
    LET cli == LoadUsers(users_file, env.auth_accounts, env.salts)
        u == UpdateUserOf(cli, username,
                          [is_active |-> ~cli[username].is_active], <<>>)
    IN /\ users_file' = IF username \notin DOMAIN cli THEN users_file
                        ELSE FileOf(SaveDataOf(u.users))
       /\ UNCHANGED <<users, issued, resp, pending, running, api_key, now,
                      last_call, regVars, reqVars>>


\* ------------------------------------------------------------ the start
\* Module import: rag_instances = {} (line 24), no task running.
InitRegistry ==
    /\ rag_instances = <<>>
    /\ engines = <<>>
    /\ dirs = {}
    /\ pc = [t \in Tasks |-> "idle"]
    /\ workspace = [t \in Tasks |-> NoneVal]
    /\ rag = [t \in Tasks |-> 0]
    /\ result = [t \in Tasks |-> 0]
    /\ obtained = {}

InitRequests ==
    /\ rpc = [r \in Requests |-> "idle"]
    /\ req = [r \in Requests |-> NoReq]
    /\ pos = [r \in Requests |-> 0]
    /\ state = [r \in Requests |-> <<>>]
    /\ ran = [r \in Requests |-> <<>>]
    /\ exc = [r \in Requests |-> NoExc]

InitStoreCalls ==
    /\ now = 0
    /\ last_call = NoCall

\* No users file, no token given out, no request served yet, the API
\* server running.
InitAuthIdle ==
    /\ users_file = NoFile
    /\ issued = {}
    /\ resp = NoResp
    /\ pending = [h \in Handlers |-> NoPending]
    /\ running = TRUE

Init ==
    /\ InitRegistry
    /\ InitRequests
    /\ InitStoreCalls
    /\ InitAuthIdle
    /\ api_key = NoneVal
    /\ users = <<>>

Next ==
    \E t \in Tasks :
        \/ \E arg \in WorkspaceArgs : GetOrCreateRag(t, arg)
        \/ InitializeStoragesReturns(t)
        \/ InitializeStoragesRaises(t)
        \/ Cancel(t)
        \/ Finish(t)

Spec == Init /\ [][Next]_vars

\* The server with its configuration read and its user store loaded with the
\* account alice (bob has no account), serving requests.
InitReq ==
    /\ InitRegistry
    /\ InitRequests
    /\ InitStoreCalls
    /\ InitAuthIdle
    /\ api_key \in ApiKeyConfigs
    /\ users = UserStore({"alice"})

NextReq ==
    \E r \in Requests :
        \/ \E q \in RequestInputs : NewRequest(r, q)
        \/ InjectWorkspaceRag(r)
        \/ Dispatch(r)
        \/ Handler(r)
        \/ FinishRequest(r)

SpecReq == InitReq /\ [][NextReq]_vars

\* The user manager of a process that found no users file and no
\* AUTH_ACCOUNTS (lines 30, 34, 51, 57), and its callers; the calls are made
\* within one reading of the clock.
InitStore ==
    /\ InitRegistry
    /\ InitRequests
    /\ InitStoreCalls
    /\ InitAuthIdle
    /\ api_key = NoneVal
    /\ users = <<>>

NextStore ==
    \/ \E username \in Usernames, email \in Emails, password \in Passwords :
          CallCreateUser(username, email, password)
    \/ \E username \in Usernames, password \in Passwords :
          CallAuthenticate(username, password)
    \/ \E username \in Usernames, kwargs \in UpdateKwargs :
          CallUpdateUser(username, kwargs)
    \/ \E username \in Usernames : CallDeleteUser(username)

SpecStore == InitStore /\ [][NextStore]_vars

\* Callers of update_user for alice, with every keyword, beside accounts
\* created with one password.
NextUpdate ==
    \/ \E username \in Usernames, email \in Emails :
          CallCreateUser(username, email, <<"p">>)
    \/ \E username \in Usernames : CallAuthenticate(username, <<"p">>)
    \/ \E kwargs \in UpdateKwargsWithMetadata :
          CallUpdateUser("alice", kwargs)

SpecUpdate == InitStore /\ [][NextUpdate]_vars

\* The users file the API server starts from: the accounts alice and bob.
InitialUsers ==
    [alice |-> NewUser("alice", "a@bosch.com", <<"p">>, <<"0", "a">>),
     bob |-> NewUser("bob", "b@bosch.com", <<"p", "0">>, <<"0", "b">>)]

\* The API server after it has loaded its users file, its client, who also
\* shows its token to the portal, and an administrator who stops the server,
\* uses the command line while it is stopped, and starts it again. One
\* handler at a time is suspended in _save_users, and no other operation on
\* the file falls into its save.
InitAuth ==
    /\ InitRegistry
    /\ InitRequests
    /\ InitStoreCalls
    /\ api_key = NoneVal
    /\ users = InitialUsers
    /\ users_file = FileOf(SaveDataOf(InitialUsers))
    /\ issued = {}
    /\ resp = NoResp
    /\ pending = [h \in Handlers |-> NoPending]
    /\ running = TRUE

NextAuth ==
    \/ \E username \in Usernames, password \in Passwords :
          Login(1, username, password)
    \/ SaveUsersReturns(1)
    \/ \E token \in Presented : GetCurrentUser(token)
    \/ \E token \in Presented : Logout(token)
    \/ \E token \in Presented : PortalVerify(token)
    \/ PortalLogout
    \/ Stop
    \/ ~running /\ \E username \in Usernames : CliDeleteUser(username, NoEnv)
    \/ ~running /\ \E username \in Usernames :
                        CliToggleUserStatus(username, NoEnv)
    \/ Start(NoEnv)
    \/ Tick

SpecAuth == InitAuth /\ [][NextAuth]_vars

\* The API server started without users file, clients who register, and an
\* administrator who deletes accounts.
NextRegister ==
    \/ \E username \in Usernames, email \in Emails, password \in Passwords :
          Register(1, username, email, password)
    \/ SaveUsersReturns(1)
    \/ Stop
    \/ ~running /\ \E username \in Usernames : CliDeleteUser(username, NoEnv)
    \/ Start(NoEnv)

SpecRegister == InitStore /\ [][NextRegister]_vars

\* The API server started without users file, with clients whose requests
\* are served concurrently: the handlers suspend in _save_users one beside
\* the other, and the worker threads run their file operations in any order.
\* Every file operation succeeds, and the text of the file fits into the
\* buffer of a file object.
NextPersist ==
    \E h \in Handlers :
        \/ \E username \in Usernames, email \in Emails :
              Register(h, username, email, <<"p">>)
        \/ SaveOpen(h)
        \/ SaveWrite(h, 0)
        \/ SaveClose(h)

SpecPersist == InitStore /\ [][NextPersist]_vars

\* The API server after it has loaded its users file, serving one login at
\* a time; the process may end at any point and be started again. The text
\* of the file may be longer than the buffer of a file object.
NextCrash ==
    \/ \E username \in Usernames, password \in Passwords :
          Login(1, username, password)
    \/ SaveOpen(1)
    \/ \E n \in 0..(Cardinality(Usernames) + 2) : SaveWrite(1, n)
    \/ SaveClose(1)
    \/ Stop
    \/ Start(NoEnv)
    \/ Tick

SpecCrash == InitAuth /\ [][NextCrash]_vars

\* The API server started without users file, serving one request at a time;
\* the file operations of a save may fail.
NextSave ==
    \/ \E username \in Usernames, email \in Emails :
          Register(1, username, email, <<"p">>)
    \/ \E username \in Usernames, password \in Passwords :
          Login(1, username, password)
    \/ \E token \in issued, old_password \in Passwords :
          ChangePassword(1, token, old_password, <<"p", "0">>)
    \/ SaveUsersReturns(1)
    \/ SaveRaises(1)

SpecSave == InitStore /\ [][NextSave]_vars

\* Users files a process may find when it starts: none, the accounts alice
\* and bob, an empty file, a file that ends after alice's entry, and a file
\* whose entry for bob has a created_at that is no ISO time.
StartFiles ==
    {NoFile,
     FileOf(SaveDataOf(InitialUsers)),
     OpenForWriting(NoFile),
     WriteAt(OpenForWriting(NoFile), 0,
             SubSeq(JsonDumps(SaveDataOf(InitialUsers)), 1, 2)),
     FileOf([SaveDataOf(InitialUsers) EXCEPT
                 !["bob"].created_at = <<"yesterday">>])}

\* No process running yet, beside whatever users file there is.
InitBoot ==
    /\ InitRegistry
    /\ InitRequests
    /\ InitStoreCalls
    /\ api_key = NoneVal
    /\ users = <<>>
    /\ users_file \in StartFiles
    /\ issued = {}
    /\ resp = NoResp
    /\ pending = [h \in Handlers |-> NoPending]
    /\ running = FALSE

\* The API server is started and stopped, with whatever AUTH_ACCOUNTS
\* setting; it serves one request at a time, and no other operation on the
\* file falls into a save; an administrator uses the command line, whether
\* the server is running or not.
NextBoot ==
    \/ \E env \in Envs : Start(env)
    \/ Stop
    \/ \E username \in Usernames : Login(1, username, <<"p">>)
    \/ SaveUsersReturns(1)
    \/ \E token \in issued : GetCurrentUser(token)
    \/ \E username \in Usernames, env \in Envs : CliDeleteUser(username, env)
    \/ \E username \in Usernames, env \in Envs :
          CliToggleUserStatus(username, env)

SpecBoot == InitBoot /\ [][NextBoot]_vars

\* The portal and its clients.
NextPortal ==
    \/ \E username \in PortalNames, password \in PortalPasswords :
          PortalLogin(username, password)
    \/ \E token \in Presented : PortalVerify(token)
    \/ PortalLogout
    \/ Tick

SpecPortal == InitStore /\ [][NextPortal]_vars

\* ------------------------------------------------ claims on the registry
\* Constructions of one workspace that are in progress or completed.
LiveEngines(ws) ==
    {h \in DOMAIN engines :
        engines[h].workspace = ws /\ engines[h].status \in {"initializing", "ready"}}

\* C1: single-flight construction: concurrent get_or_create calls for one
\* workspace with no cached instance share one construction, so a workspace
\* never has two constructions that are in progress or completed.
C1_SingleFlight ==
    \A ws \in {Key(a) : a \in WorkspaceArgs} : Cardinality(LiveEngines(ws)) <= 1

\* C2: at most one live instance per workspace: every handle a call has
\* returned for a workspace is the handle the cache holds for it (all callers
\* get the same one, and a published handle is never replaced).
C2_OneInstancePerWorkspace ==
    \A p \in obtained :
        p[1] \in DOMAIN rag_instances /\ rag_instances[p[1]] = p[2]

\* C3: cancelling the caller that started a construction does not abort the
\* construction: it is still in progress, or has completed or failed.
C3_CancelKeepsConstruction ==
    \A t \in Tasks :
        pc[t] = "cancelled" =>
            engines[rag[t]].status \in {"initializing", "ready", "failed"}

\* C4: no early publish: every handle in the cache, and every handle a caller
\* has obtained, has completed its asynchronous initialization.
C4_NoEarlyPublish ==
    /\ \A ws \in DOMAIN rag_instances : engines[rag_instances[ws]].status = "ready"
    /\ \A p \in obtained : engines[p[2]].status = "ready"
    /\ \A t \in Tasks : result[t] # 0 => engines[result[t]].status = "ready"

\* C4 witness: a workspace is cached and returned while another construction
\* of that workspace is still suspended in its initialization.
C4_Witness ==
    \E t1, t2 \in Tasks :
        /\ pc[t1] = "await_init" /\ pc[t2] = "returned"
        /\ workspace[t1] = workspace[t2]
        /\ workspace[t2] \in DOMAIN rag_instances
        /\ result[t2] = rag_instances[workspace[t2]]

C6_Idempotent ==
    [][\A t \in Tasks :
         (pc[t] = "idle" /\ pc'[t] # "idle"
            /\ workspace'[t] \in DOMAIN rag_instances) =>
            /\ pc'[t] = "returned"
            /\ result'[t] = rag_instances[workspace'[t]]
            /\ rag_instances' = rag_instances
            /\ engines' = engines
            /\ dirs' = dirs
      ]_vars

\* C6 witness: a call returned a cached handle without constructing, while
\* the cache entry is the one an earlier call published.
C6_Witness ==
    \E t \in Tasks :
        /\ pc[t] = "returned" /\ rag[t] = 0 /\ result[t] # 0
        /\ rag_instances[workspace[t]] = result[t]

\* ----------------------------------------- claims on identity resolution
\* WorkspaceMiddleware.dispatch has run for the request in slot r.
Resolved(r) ==
    rpc[r] # "idle" /\ \E i \in DOMAIN ran[r] : ran[r][i] = "WorkspaceMiddleware"

\* The request in slot r goes on with these three attributes in request.state.
Carries(r, u, w, a) ==
    /\ rpc[r] \in {"chain", "handled"}
    /\ {"username", "workspace", "user_authenticated"} \subseteq DOMAIN state[r]
    /\ state[r].username = u
    /\ state[r].workspace = w
    /\ state[r].user_authenticated = a

\* The request in slot r was refused with 401 and never reaches its handler.
Rejected401(r) ==
    /\ rpc[r] = "rejected"
    /\ exc[r].status_code = 401
    /\ \A i \in DOMAIN ran[r] : ran[r][i] # "handler"

\* a runs before b in the sequence s.
Before(s, a, b) == \E i, j \in DOMAIN s : i < j /\ s[i] = a /\ s[j] = b

\* C7: handle attachment ordering: when the handler runs for a request that
\* passed identity resolution (no bypass, no rejection), resolution ran before
\* the handle injection, and request.state.rag is the handle the registry
\* holds for the resolved workspace (the default one for workspace None).
C7_HandleAttachedAfterResolution ==
    \A r \in Requests :
        (rpc[r] = "handled" /\ ~Whitelisted(req[r].path)) =>
            /\ Before(ran[r], "WorkspaceMiddleware", "inject_workspace_rag")
            /\ "rag" \in DOMAIN state[r]
            /\ Key(state[r].workspace) \in DOMAIN rag_instances
            /\ state[r].rag = rag_instances[Key(state[r].workspace)]

\* C8 as stated: a non-bypassed request with a Bearer token that validates is
\* Authenticated as the token's subject, with the workspace of the claims
\* when they carry one and the stored record's workspace otherwise.
C8_ValidTokenAuthenticated_AsStated ==
    \A r \in Requests :
        LET tok == req[r].authorization.token IN
        (Resolved(r) /\ ~Whitelisted(req[r].path)
           /\ req[r].authorization.scheme = "Bearer" /\ tok.verdict = "ok") =>
            IF tok.workspace # NoneVal /\ tok.workspace # ""
            THEN Carries(r, tok.sub, tok.workspace, TRUE)
            ELSE /\ tok.sub \in DOMAIN users
                 /\ Carries(r, tok.sub, users[tok.sub].workspace, TRUE)

\* C8 amended: the same, for a token that carries a workspace claim or whose
\* subject has a record in the user store; whatever the X-API-Key header and
\* the enforcement setting.
C8_ValidTokenAuthenticated ==
    \A r \in Requests :
        LET tok == req[r].authorization.token IN
        (Resolved(r) /\ ~Whitelisted(req[r].path)
           /\ req[r].authorization.scheme = "Bearer" /\ tok.verdict = "ok"
           /\ ((tok.workspace # NoneVal /\ tok.workspace # "")
                  \/ tok.sub \in DOMAIN users)) =>
            IF tok.workspace # NoneVal /\ tok.workspace # ""
            THEN Carries(r, tok.sub, tok.workspace, TRUE)
            ELSE Carries(r, tok.sub, users[tok.sub].workspace, TRUE)

\* C8 witness: enforcement is on, the request carries the configured API key
\* and a valid token without workspace claim, and it is resolved to the
\* stored workspace of the token's subject.
C8_Witness ==
    \E r \in Requests :
        /\ Resolved(r) /\ req[r].path = P_query
        /\ req[r].authorization.scheme = "Bearer"
        /\ req[r].authorization.token.verdict = "ok"
        /\ req[r].authorization.token.workspace = NoneVal
        /\ req[r].authorization.token.sub = "alice"
        /\ api_key = "k1" /\ req[r].x_api_key = "k1"
        /\ Carries(r, "alice", "user_alice", TRUE)

\* C9: a non-bypassed request with a Bearer token that fails validation is
\* rejected with 401 when enforcement is on and goes on as anonymous
\* (workspace None, not authenticated) when it is off; it is never api_user.
C9_BadTokenRejectedOrAnonymous ==
    \A r \in Requests :
        (Resolved(r) /\ ~Whitelisted(req[r].path)
           /\ req[r].authorization.scheme = "Bearer"
           /\ req[r].authorization.token.verdict # "ok") =>
            /\ IF api_key # NoneVal /\ api_key # ""
               THEN Rejected401(r)
               ELSE Carries(r, "anonymous", NoneVal, FALSE)
            /\ "username" \in DOMAIN state[r] => state[r].username # "api_user"

\* C9 witness: an expired token together with the matching API key, rejected.
C9_Witness ==
    \E r \in Requests :
        /\ req[r].path = P_auth
        /\ req[r].authorization.scheme = "Bearer"
        /\ req[r].authorization.token.verdict = "expired"
        /\ api_key = "k1" /\ req[r].x_api_key = "k1"
        /\ rpc[r] = "rejected"
        /\ exc[r] = [status_code |-> 401, detail |-> "Invalid authentication"]

\* C10: a non-bypassed request without Bearer header is api_user with
\* workspace None when a key is configured and X-API-Key equals it; otherwise
\* it is rejected with 401 "Authentication required" when enforcement is on,
\* and then its handler never runs, and goes on as anonymous when it is off.
C10_NoBearerOutcome ==
    \A r \in Requests :
        (Resolved(r) /\ ~Whitelisted(req[r].path)
           /\ req[r].authorization.scheme # "Bearer") =>
            IF api_key # NoneVal /\ api_key # ""
            THEN IF req[r].x_api_key = api_key
                 THEN Carries(r, "api_user", NoneVal, TRUE)
                 ELSE /\ Rejected401(r)
                      /\ exc[r].detail = "Authentication required"
            ELSE Carries(r, "anonymous", NoneVal, FALSE)

\* C10 witness: enforcement on, a wrong API key, no Authorization header:
\* rejected before the handler.
C10_Witness ==
    \E r \in Requests :
        /\ req[r].path = P_query
        /\ req[r].authorization.scheme = NoneVal
        /\ api_key = "k1" /\ req[r].x_api_key = "k2"
        /\ Rejected401(r)
        /\ exc[r].detail = "Authentication required"

\* The path begins with one of the configured allow-list entries.
BypassPath(path) ==
    \E i \in DOMAIN whitelist_paths :
        \E n \in 0..Len(path) : SubSeq(path, 1, n) = whitelist_paths[i]

\* C11: bypass paths: a request whose path matches the allow-list never has
\* username, workspace or user_authenticated in request.state, is never
\* rejected, and once WorkspaceMiddleware has run it is on its way to the
\* handler or handled, whatever its headers and the enforcement setting.
C11_BypassSkipsResolution ==
    \A r \in Requests :
        (rpc[r] # "idle" /\ BypassPath(req[r].path)) =>
            /\ DOMAIN state[r] \cap {"username", "workspace", "user_authenticated"} = {}
            /\ rpc[r] \in {"chain", "handled"}
            /\ exc[r] = NoExc
            /\ Resolved(r) => \/ rpc[r] = "handled"
                              \/ pos[r] = Len(ran[r]) + 1

\* C11 witness: enforcement on, a wrong API key and an expired Bearer token
\* on /auth/me: the handler has run with an empty request.state.
C11_Witness ==
    \E r \in Requests :
        /\ req[r].path = P_auth_me
        /\ req[r].authorization.scheme = "Bearer"
        /\ req[r].authorization.token.verdict = "expired"
        /\ api_key = "k1" /\ req[r].x_api_key = "k2"
        /\ rpc[r] = "handled"
        /\ Resolved(r)
        /\ state[r] = <<>>

\* ------------------------------------------------ claims on the user store
\* What a client sees of a response: everything but the echo of its request.
Observable(r) ==
    [r EXCEPT !.req_username = NoneVal, !.req_email = NoneVal,
              !.req_password = <<>>, !.req_token = NoJwt]

\* C13: workspace is fixed for the life of an account: every stored record
\* is filed under its own username and has the workspace "user_" + username,
\* so two accounts never share a workspace, whatever create, authenticate,
\* update and delete calls have been made.
C13_WorkspaceFixed ==
    /\ \A u \in DOMAIN users :
          /\ users[u].username = u
          /\ users[u].workspace = UserWorkspace(u)
    /\ \A u, v \in DOMAIN users :
          u # v => users[u].workspace # users[v].workspace

\* C13 witness: update_user was called on alice with a workspace keyword
\* while bob has an account too, and returned alice's record.
C13_Witness ==
    /\ last_call.op = "update_user"
    /\ "workspace" \in last_call.keys
    /\ last_call.username = "alice"
    /\ DOMAIN users = {"alice", "bob"}
    /\ last_call.user = users["alice"]

\* C14: create then authenticate: create_user with a username that is not
\* in the store succeeds and stores the record it returns; authenticate
\* called next with the same username and password returns that record
\* (last_login now set), whose workspace is "user_" + username.
C14_CreateThenAuthenticate ==
    [][/\ (last_call'.op = "create_user"
            /\ last_call'.username \notin DOMAIN users) =>
             /\ last_call'.status_code = 0
             /\ last_call'.user.username = last_call'.username
             /\ last_call'.user.email = last_call'.email
             /\ users'[last_call'.username] = last_call'.user
       /\ (last_call.op = "create_user" /\ last_call.status_code = 0
            /\ last_call'.op = "authenticate"
            /\ last_call'.username = last_call.username
            /\ last_call'.password = last_call.password) =>
             /\ last_call'.user = [last_call.user EXCEPT !.last_login = now']
             /\ last_call'.user.workspace = UserWorkspace(last_call.username)
             /\ users'[last_call.username] = last_call'.user
      ]_vars

\* C14 witness: authenticate has returned bob's record, created with the
\* longer password and the second e-mail address.
C14_Witness ==
    /\ last_call.op = "authenticate"
    /\ last_call.username = "bob"
    /\ last_call.password = <<"p", "0">>
    /\ last_call.user.username = "bob"
    /\ last_call.user.email = "b@bosch.com"
    /\ last_call.user.workspace = "user_bob"
    /\ last_call.user.last_login = now

\* A direct create_user call with a username that is in the store raises 409,
\* returns nothing and leaves the whole user map as it was (checked under
\* SpecStore).
C15_CreateUserConflict ==
    [][(last_call'.op = "create_user"
          /\ last_call'.username \in DOMAIN users) =>
            /\ last_call'.status_code = 409
            /\ last_call'.user = NoUser
            /\ users' = users
      ]_vars

\* C15: duplicate create fails with Conflict: POST /auth/register with a
\* username that is in the store is answered 409 by create_user's exception,
\* whatever email and password it carries, and leaves the user map, the
\* users file and the pending save as they were; a registration that is
\* accepted is one for a username that was not in the store, and it leaves
\* every existing record as it was.
C15_DuplicateCreateConflict ==
    [][/\ (resp' # resp /\ resp' \notin PendingResponses
            /\ resp'.route = "register"
            /\ resp'.req_username \in DOMAIN users) =>
              /\ resp'.status_code = 409
              /\ Observable(resp') =
                    [NoResp EXCEPT !.server = "api", !.route = "register",
                                   !.status_code = 409,
                                   !.detail = "User already exists"]
              /\ UNCHANGED <<users, users_file, pending>>
       /\ \A h \in Handlers :
            (pending'[h] # pending[h] /\ pending'[h].active
               /\ pending'[h].resp.route = "register") =>
              /\ pending'[h].resp.req_username \notin DOMAIN users
              /\ \A u \in DOMAIN users : users'[u] = users[u]
      ]_vars

\* C15 witness: a registration as alice was refused with 409 although its
\* email and password differ from the ones of alice's record.
C15_Witness ==
    /\ resp.route = "register" /\ resp.status_code = 409
    /\ resp.req_username = "alice"
    /\ "alice" \in DOMAIN users
    /\ resp.req_email # users["alice"].email
    /\ ~PasswordMatches("alice", resp.req_password)

\* C16: failed authentication: authenticate returns None and changes no
\* record (last_login included) when the username is not in the store,
\* when the account is inactive, or when the password does not match.
C16_FailedAuthenticateNoEffect ==
    [][\A u \in Usernames :
         (/\ last_call'.op = "authenticate"
          /\ last_call'.username = u
          /\ \/ u \notin DOMAIN users
             \/ ~users[u].is_active
             \/ users[u].password_hash #
                    Sha256(last_call'.password \o users[u].salt)) =>
            /\ last_call'.user = NoUser
            /\ users' = users
      ]_vars

\* C16 witness: authenticate with the right password on an inactive account
\* that has never logged in returned None and left last_login unset.
C16_Witness ==
    /\ last_call.op = "authenticate"
    /\ last_call.username = "alice"
    /\ "alice" \in DOMAIN users
    /\ ~users["alice"].is_active
    /\ users["alice"].password_hash =
           Sha256(last_call.password \o users["alice"].salt)
    /\ last_call.user = NoUser
    /\ users["alice"].last_login = NoTime

\* --------------------------------------------- claims on login and tokens
\* C12: login binds the token to the caller's own workspace: the token a
\* successful login returns, and so the token the client holds, has the
\* login's username as subject and "user_" + username as workspace; GET
\* /auth/me with an unexpired token of a login succeeds while the subject
\* has a record, and whenever it succeeds it returns the username, e-mail
\* and workspace of the subject's own record.
C12_LoginBindsOwnWorkspace ==
    [][/\ \A t \in issued' :
            t.payload.workspace = UserWorkspace(t.payload.sub)
       /\ (resp' # resp /\ resp'.route = "login" /\ resp'.status_code = 200) =>
             /\ resp'.access_token.payload.sub = resp'.req_username
             /\ resp'.access_token.payload.workspace =
                    UserWorkspace(resp'.req_username)
             /\ resp'.access_token.signed_with = SECRET_KEY
             /\ resp'.workspace = UserWorkspace(resp'.req_username)
             /\ resp'.access_token \in issued'
       /\ (resp' # resp /\ resp'.route = "me") =>
             LET u == resp'.req_token.payload.sub IN
             /\ (resp'.req_token \in issued /\ now < resp'.req_token.payload.exp
                   /\ u \in DOMAIN users) => resp'.status_code = 200
             /\ resp'.status_code = 200 =>
                   /\ u \in DOMAIN users
                   /\ resp'.username = u
                   /\ resp'.email = users[u].email
                   /\ resp'.workspace = users[u].workspace
                   /\ resp'.workspace = UserWorkspace(u)
      ]_vars

\* C12 witness: /auth/me with the token of bob's login has returned bob's
\* e-mail and workspace while alice has an account too.
C12_Witness ==
    /\ resp.route = "me" /\ resp.status_code = 200
    /\ resp.req_token \in issued
    /\ resp.req_token.payload.sub = "bob"
    /\ resp.req_token.payload.workspace = "user_bob"
    /\ resp.email = "b@bosch.com" /\ resp.workspace = "user_bob"
    /\ "alice" \in DOMAIN users

\* C17: login failures are indistinguishable: a login with a username that
\* has no record and a login with a known username and a wrong password get
\* the same response, 401 "Invalid username or password", from the handler's
\* first segment (no save is awaited), and neither changes the user map, the
\* users file, the pending save or a token.
C17_LoginFailuresAlike ==
    [][(resp' # resp /\ resp' \notin PendingResponses
          /\ resp'.server = "api" /\ resp'.route = "login") =>
         LET u == resp'.req_username IN
         (\/ u \notin DOMAIN users
          \/ /\ u \in DOMAIN users
             /\ users[u].password_hash #
                    Sha256(resp'.req_password \o users[u].salt)) =>
            /\ Observable(resp') =
                  [NoResp EXCEPT !.server = "api", !.route = "login",
                                 !.status_code = 401,
                                 !.detail = "Invalid username or password"]
            /\ UNCHANGED <<users, users_file, issued, pending>>
      ]_vars

\* C17 witness: alice has been deleted and bob has an account; a login as
\* alice was refused with the generic reason (the same state is reached by a
\* login as bob with a wrong password: C17_WitnessWrongPassword).
C17_Witness ==
    /\ resp.route = "login" /\ resp.status_code = 401
    /\ resp.req_username = "alice"
    /\ "alice" \notin DOMAIN users /\ "bob" \in DOMAIN users
    /\ resp.detail = "Invalid username or password"

\* A login as bob, who has an active account, with a wrong password was
\* refused with the generic reason.
C17_WitnessWrongPassword ==
    /\ resp.route = "login" /\ resp.status_code = 401
    /\ resp.req_username = "bob"
    /\ "bob" \in DOMAIN users /\ users["bob"].is_active
    /\ ~PasswordMatches("bob", resp.req_password)
    /\ resp.detail = "Invalid username or password"

\* A login as a portal user who does not exist, or with a wrong password, is
\* refused with the same response (checked under SpecPortal).
C17_PortalLoginFailuresAlike ==
    (resp.server = "portal" /\ resp.route = "login" /\ resp.status_code # 200) =>
        Observable(resp) =
            [NoResp EXCEPT !.server = "portal", !.route = "login",
                           !.status_code = 401,
                           !.detail = "Invalid username or password"]

\* The signature of the token verifies and its expiry lies ahead.
SignedAndFresh(t) == t.signed_with = SECRET_KEY /\ now < t.payload.exp

\* C18: token validity is stateless: a token validates, at the API server
\* and at the portal, exactly when its signature verifies and the clock is
\* before its expiry, whatever has become of its subject's account; a step
\* that leaves the clock alone (a logout, a deletion, a deactivation) leaves
\* every token as valid as it was; a logout changes neither the user map,
\* the users file nor the pending save.
C18_TokenValidityStateless ==
    [][/\ \A t \in Presented' :
            /\ (VerifyToken(t).status_code = 0)' <=> SignedAndFresh(t)'
            /\ (AuthValidateToken(t).status_code = 0)' <=> SignedAndFresh(t)'
       /\ now' = now =>
             \A t \in Presented :
                 /\ VerifyToken(t).status_code = (VerifyToken(t).status_code)'
                 /\ AuthValidateToken(t).status_code =
                        (AuthValidateToken(t).status_code)'
       /\ (resp' # resp /\ resp'.route = "logout") =>
             /\ UNCHANGED <<users, users_file, pending, now>>
             /\ resp'.server = "api" =>
                   (resp'.status_code = 200 <=> SignedAndFresh(resp'.req_token))
      ]_vars

\* C18 witness: alice's account is gone, bob's is inactive, and a logout
\* with the token of one of them has just succeeded: the token validated.
C18_Witness ==
    /\ resp.server = "api" /\ resp.route = "logout" /\ resp.status_code = 200
    /\ resp.req_token \in issued
    /\ "alice" \notin DOMAIN users
    /\ "bob" \in DOMAIN users /\ ~users["bob"].is_active
    /\ AuthValidateToken(resp.req_token).status_code = 0
    /\ VerifyToken(resp.req_token).status_code = 0

\* C19: token round trip: the token a portal login returns carries the
\* username as subject, the workspace and e-mail of USERS, and the expiry
\* issue time + 48 hours; it validates at issue time, and the token a
\* client holds validates at every time before its expiry, the validation
\* returning the claims that were issued.
C19_TokenRoundTrip ==
    [][/\ (resp' # resp /\ resp'.server = "portal" /\ resp'.route = "login"
              /\ resp'.status_code = 200) =>
             \A t \in {resp'.access_token} :
             /\ t.payload = [sub |-> resp'.req_username, exp |-> now + 48,
                             workspace |-> USERS[resp'.req_username].workspace,
                             email |-> USERS[resp'.req_username].email]
             /\ (VerifyToken(t).status_code = 0)'
             /\ t \in issued'
       /\ \A t \in issued' :
             (now' < t.payload.exp) =>
                 /\ (VerifyToken(t).status_code = 0)'
                 /\ (VerifyToken(t).payload)' = t.payload
                 /\ t.payload.workspace = USERS[t.payload.sub].workspace
                 /\ t.payload.email = USERS[t.payload.sub].email
       /\ (resp' # resp /\ resp'.route = "verify" /\ resp'.req_token \in issued
              /\ now < resp'.req_token.payload.exp) =>
             /\ resp'.status_code = 200
             /\ resp'.username = resp'.req_token.payload.sub
             /\ resp'.workspace = resp'.req_token.payload.workspace
             /\ resp'.email = resp'.req_token.payload.email
      ]_vars

\* C19 witness: a day after demo's login the portal has verified demo's
\* token and returned the claims it was issued with.
C19_Witness ==
    /\ now = 24
    /\ resp.server = "portal" /\ resp.route = "verify" /\ resp.status_code = 200
    /\ resp.req_token \in issued /\ resp.req_token.payload.exp = 48
    /\ resp.username = "demo" /\ resp.workspace = "user_demo"
    /\ resp.email = "demo@bosch.com"

\* C20: token failure kinds are distinguished: a token that is refused
\* although its signature verifies (it is expired) is refused with another
\* outcome than the one a token signed with a different secret is refused
\* with, 401 "Invalid token".
C20_FailureKindsDistinguished ==
    (resp.server = "portal" /\ resp.route = "verify" /\ resp.status_code # 200) =>
        IF resp.req_token.signed_with # SECRET_KEY
        THEN resp.status_code = 401 /\ resp.detail = "Invalid token"
        ELSE ~(resp.status_code = 401 /\ resp.detail = "Invalid token")

\* ------------------------------------------------ claims on the users file
\* The file holds the complete text of a user map, which _load_users loads
\* without an error.
CompleteFile(file) ==
    /\ JsonWellFormed(file.text)
    /\ ~LoadItems(JsonItems(file.text), <<>>).raised

\* C21: atomic persist: at whatever point of a save the process ends, the
\* users file holds the complete text of a user map, the one from before
\* the save or the one the save writes; it is never empty, truncated or
\* partially written.
C21_AtomicPersist == users_file.exists => CompleteFile(users_file)

\* The durable user collection: the user map a process loads from the users
\* file as it is (none from a file that is missing or does not load).
DurableUsers == LoadUsers(users_file, <<>>, <<>>)

\* C22: every mutation is made durable: while the server is running and no
\* handler is suspended in a save, the durable user collection equals the
\* user map in memory, whatever operations (seeding at the start, logins,
\* command-line deletions and toggles) have completed.
C22_MutationsDurable ==
    (running /\ \A h \in Handlers : ~pending[h].active) =>
        DurableUsers = users

\* After seeding alone: a server that has started without users file and has
\* served nothing yet has a user map equal to the durable collection
\* (violated under SpecBoot, by a start with AUTH_ACCOUNTS set).
C22_SeedingDurable ==
    (running /\ ~users_file.exists /\ resp = NoResp) => DurableUsers = users

\* ------------------------------------------- claims on change-password
\* No suspended handler resumes in this step: a response that appears in it
\* comes from the first segment of a handler.
NoHandlerResumes ==
    \A h \in Handlers : pending[h].active => pending'[h] = pending[h]

\* The requests whose handler ran its first segment in this step: the one
\* answered at once and the one suspended in its save.
HandledNow ==
    {q \in {resp'} : resp' # resp /\ NoHandlerResumes}
        \cup {pending'[h].resp : h \in {g \in Handlers :
                                 ~pending[g].active /\ pending'[g].active}}

\* C23: change-password with a wrong old password is rejected without
\* effect: PUT /auth/change-password with a token that validates and an old
\* password that does not authenticate is answered 401 "Invalid password",
\* changes no record (salt and password hash included), starts no save and
\* leaves the users file alone; every password authenticates afterwards
\* exactly if it did before.
C23_WrongOldPasswordNoEffect ==
    [][\A q \in HandledNow, u \in {t.payload.sub : t \in issued} :
         (/\ q.route = "change-password"
          /\ AuthValidateToken(q.req_token).status_code = 0
          /\ u = q.req_token.payload.sub
          /\ Refused(u) \/ ~PasswordMatches(u, q.req_password)) =>
            /\ resp' = q
            /\ resp'.status_code = 401
            /\ resp'.detail = "Invalid password"
            /\ UNCHANGED <<users, users_file, pending>>
            /\ \A p \in Passwords :
                  (~Refused(u) /\ PasswordMatches(u, p)) <=>
                      (~Refused(u) /\ PasswordMatches(u, p))'
      ]_vars

\* C23 witness: bob, whose password is <<"p">>, has asked for a change with
\* another old password and got 401; <<"p">> still matches his record.
C23_Witness ==
    /\ resp.route = "change-password" /\ resp.status_code = 401
    /\ resp.detail = "Invalid password"
    /\ resp.req_token \in issued
    /\ resp.req_token.payload.sub = "bob"
    /\ resp.req_password = <<"p", "0">>
    /\ ~Refused("bob") /\ PasswordMatches("bob", <<"p">>)
    /\ \A h \in Handlers : ~pending[h].active

\* --------------------------------------------------- claims on update_user
\* C24: update frame: update_user on an existing user changes only those of
\* email, is_active and metadata that are among its keywords, plus salt and
\* password_hash when a password is among them; username, workspace,
\* created_at, last_login and every other user's record are unchanged, and
\* the record is returned; for an absent username it returns None and
\* changes nothing.
C24_UpdateFrame ==
    [][last_call'.op = "update_user" =>
         \A name \in Usernames, keys \in {DOMAIN k : k \in UpdateKwargsWithMetadata} :
            (name = last_call'.username /\ keys = last_call'.keys) =>
               IF name \in DOMAIN users
               THEN /\ DOMAIN users' = DOMAIN users
                    /\ \A o \in DOMAIN users \ {name} : users'[o] = users[o]
                    /\ \A f \in {"username", "workspace", "created_at",
                                  "last_login"} :
                          users'[name][f] = users[name][f]
                    /\ \A f \in {"email", "is_active", "metadata"} :
                          f \notin keys => users'[name][f] = users[name][f]
                    /\ "password" \notin keys =>
                          /\ users'[name].salt = users[name].salt
                          /\ users'[name].password_hash =
                                users[name].password_hash
                    /\ last_call'.user = users'[name]
               ELSE /\ last_call'.user = NoUser
                    /\ users' = users
      ]_vars

\* C24 witness: update_user was called for alice with the keywords
\* workspace, created_at and last_login while bob had an account; alice's
\* record keeps the workspace of her username.
C24_Witness ==
    /\ last_call.op = "update_user"
    /\ last_call.username = "alice"
    /\ last_call.keys = {"workspace", "created_at", "last_login"}
    /\ DOMAIN users = {"alice", "bob"}
    /\ last_call.user = users["alice"]
    /\ users["alice"].workspace = UserWorkspace("alice")

\* ------------------------------------------------------ claims on startup
\* C25: load failure degrades to an empty store: when the server process
\* starts and the users file exists but json.load or the conversion of any
\* of its entries fails, the start still completes and the user map is
\* empty: no entry read before the failure remains, and no account of
\* AUTH_ACCOUNTS is seeded.
C25_LoadFailureEmptyStore ==
    [][(~running /\ users_file.exists /\ ~CompleteFile(users_file)) =>
          (running' /\ users' = <<>>)]_vars

\* C25 witness: the server runs with an empty map beside a users file that
\* is well-formed JSON, whose first entry converts and whose second entry
\* does not.
C25_Witness ==
    /\ running /\ users = <<>>
    /\ users_file.exists /\ JsonWellFormed(users_file.text)
    /\ Len(JsonItems(users_file.text)) = 2
    /\ ValidUserData(JsonItems(users_file.text)[1][2])
    /\ ~ValidUserData(JsonItems(users_file.text)[2][2])

\* ------------------------------------------------- claims on failed saves
\* C26: save failure propagates: when the save of a register, login or
\* change-password request ends without the users file holding the data of
\* that request, the client gets an error (400 for register, 500 for the
\* other two) and no token; a success response of these routes appears only
\* in the step in which the file came to hold the data of its request.
C26_SaveFailurePropagates ==
    [][/\ \A h \in Handlers :
            (/\ pending[h].active /\ ~pending'[h].active /\ running'
             /\ users_file' # FileOf(pending[h].data)) =>
               /\ resp'.route = pending[h].resp.route
               /\ resp'.req_username = pending[h].resp.req_username
               /\ resp'.status_code =
                     IF resp'.route = "register" THEN HTTP_400_BAD_REQUEST
                     ELSE 500
               /\ resp'.access_token = NoJwt
               /\ issued' = issued
       /\ (/\ resp' # resp
           /\ resp'.route \in {"register", "login", "change-password"}
           /\ resp'.status_code = 200) =>
              \E h \in Handlers :
                 /\ pending[h].active /\ pending[h].resp = resp'
                 /\ users_file' = FileOf(pending[h].data)
      ]_vars

\* C26 witness: the save of bob's registration failed before there was a
\* users file: the client got 400, no file exists, and bob's account is in
\* the map of the server.
C26_Witness ==
    /\ resp.route = "register" /\ resp.req_username = "bob"
    /\ resp.status_code = HTTP_400_BAD_REQUEST
    /\ resp.detail = "OSError"
    /\ ~users_file.exists
    /\ "bob" \in DOMAIN users
    /\ \A h \in Handlers : ~pending[h].active

\* -------------------------------------------- claims on deleted accounts
\* C27: GET /auth/me after deletion: when the account that a valid token
\* names has been deleted (the users file, which held it when the token was
\* issued, no longer does), GET /auth/me with that token is answered 404 and
\* returns no user record.
C27_MeAfterDeletion404 ==
    [][\A u \in Usernames :
         (/\ resp' # resp /\ resp'.route = "me"
          /\ AuthValidateToken(resp'.req_token).status_code = 0
          /\ u = resp'.req_token.payload.sub
          /\ users_file.exists /\ u \notin DOMAIN DurableUsers) =>
            /\ resp'.status_code = HTTP_404_NOT_FOUND
            /\ resp'.username = NoneVal
      ]_vars

\* GET /auth/me answers 404 "User not found" whenever the map of the serving
\* process has no record for the subject of a valid token.
MeWithoutRecord404 ==
    [][\A u \in Usernames :
         (/\ resp' # resp /\ resp'.route = "me"
          /\ AuthValidateToken(resp'.req_token).status_code = 0
          /\ u = resp'.req_token.payload.sub
          /\ u \notin DOMAIN users) =>
            /\ resp'.status_code = HTTP_404_NOT_FOUND
            /\ resp'.detail = "User not found"
            /\ resp'.username = NoneVal
      ]_vars

\* ------------------------------------------ claims on the default workspace
\* C28: default workspace key: a request that passed identity resolution
\* with workspace None (anonymous, or identified by the API key) reaches its
\* handler with request.state.rag attached, and that object is the one the
\* registry holds under the key "default", the key of get_or_create_rag(None)
\* and of get_or_create_rag("default").
C28_DefaultServesUnidentified ==
    \A r \in Requests :
        (/\ rpc[r] = "handled" /\ ~Whitelisted(req[r].path)
         /\ "workspace" \in DOMAIN state[r]
         /\ state[r].workspace = NoneVal) =>
            /\ Key(NoneVal) = "default"
            /\ "default" \in DOMAIN rag_instances
            /\ "rag" \in DOMAIN state[r]
            /\ state[r].rag = rag_instances["default"]

\* get_or_create_rag(None) works under the key "default": no call keeps the
\* key None, and no object is cached or returned under it.
NoneIsKeyedDefault ==
    /\ Key(NoneVal) = "default"
    /\ NoneVal \notin DOMAIN rag_instances
    /\ \A p \in obtained : p[1] # NoneVal
    /\ \A t \in Tasks : pc[t] # "idle" => workspace[t] # NoneVal

\* All calls that worked under the key "default" returned one object.
DefaultCallsShareOneObject ==
    \A p, q \in obtained :
        (p[1] = "default" /\ q[1] = "default") => p[2] = q[2]

\* ------------------------------------------- claims on overlapping saves
\* C29: concurrent persists converge: once every save that was started has
\* completed, the users file holds exactly the text of the user map the
\* server has at that moment: no older snapshot has overwritten a newer one
\* and no mixture of two snapshots is left.
C29_PersistsConverge ==
    (/\ running
     /\ users_file.exists
     /\ \A h \in Handlers : ~pending[h].active) =>
        users_file = FileOf(SaveData)

\* With no save in progress, the users file is some text json.load and the
\* conversions of _load_users accept.
QuiescentFileLoads ==
    (running /\ users_file.exists /\ \A h \in Handlers : ~pending[h].active)
        => CompleteFile(users_file)

\* ------------------------------------ claims on concurrent registrations
\* C30: concurrent registration of one username: a POST /auth/register for
\* a username that is not in the map creates the account; every register
\* for that username from then on, the ones that arrive while the first is
\* still suspended in its save included, is answered 409 and changes
\* nothing; no two suspended registrations are for one username, and a
\* stored record (its email, salt and hash) is never changed by a later
\* registration.
C30_OneRegistrationWins ==
    [][/\ \A q \in HandledNow, u \in Usernames :
            (q.route = "register" /\ q.req_username = u) =>
               IF u \in DOMAIN users
               THEN /\ resp' = q
                    /\ q.status_code = HTTP_409_CONFLICT
                    /\ UNCHANGED <<users, users_file, pending>>
               ELSE /\ q.status_code = 200
                    /\ DOMAIN users' = DOMAIN users \cup {u}
                    /\ users'[u].email = q.req_email
                    /\ users'[u].password_hash =
                          HashPassword(q.req_password, users'[u].salt)
       /\ \A u \in DOMAIN users : u \in DOMAIN users' /\ users'[u] = users[u]
       /\ \A h, g \in Handlers :
            (/\ h # g /\ pending'[h].active /\ pending'[g].active
             /\ pending'[h].resp.route = "register"
             /\ pending'[g].resp.route = "register") =>
                pending'[h].resp.req_username # pending'[g].resp.req_username
       /\ (resp' # resp /\ resp'.route = "register"
              /\ resp'.status_code = 200) =>
             /\ resp'.username \in DOMAIN users
             /\ resp'.email = users[resp'.username].email
      ]_vars

\* C30 witness: while alice's registration is suspended in its save, a
\* second registration as alice with another email has been answered 409;
\* the stored record carries the email of the first.
C30_Witness ==
    /\ resp.route = "register" /\ resp.req_username = "alice"
    /\ resp.status_code = HTTP_409_CONFLICT
    /\ \E h \in Handlers :
          /\ pending[h].active
          /\ pending[h].resp.route = "register"
          /\ pending[h].resp.req_username = "alice"
          /\ pending[h].resp.req_email # resp.req_email
          /\ users["alice"].email = pending[h].resp.req_email

\* -------------------------------------- claims on the workspace fallback
\* C31: workspace fallback for a missing account: a non-bypassed request
\* whose Bearer token validates but carries no workspace claim (none, or an
\* empty one), for a username that has no record in the user store, is never
\* authenticated: it is rejected with 401 "Invalid authentication" before
\* its handler when enforcement is on (an API key is configured), and goes
\* on as anonymous with workspace None when it is off; whatever X-API-Key
\* header it carries.
C31_MissingAccountNotAuthenticated ==
    \A r \in Requests :
        LET tok == req[r].authorization.token IN
        (/\ Resolved(r) /\ ~Whitelisted(req[r].path)
         /\ req[r].authorization.scheme = "Bearer" /\ tok.verdict = "ok"
         /\ tok.workspace \in {NoneVal, ""}
         /\ tok.sub \notin DOMAIN users) =>
            /\ IF api_key # NoneVal /\ api_key # ""
               THEN /\ Rejected401(r)
                    /\ exc[r].detail = "Invalid authentication"
                    /\ DOMAIN state[r] = {}
               ELSE Carries(r, "anonymous", NoneVal, FALSE)
            /\ "user_authenticated" \in DOMAIN state[r] =>
                  ~state[r].user_authenticated
            /\ "username" \in DOMAIN state[r] => state[r].username # tok.sub

\* C31 witness: enforcement is on and the request carries the configured
\* API key and a valid token of bob, who has no account, without workspace
\* claim; it was rejected with 401.
C31_Witness ==
    \E r \in Requests :
        /\ req[r].path = P_query
        /\ req[r].authorization.scheme = "Bearer"
        /\ req[r].authorization.token.verdict = "ok"
        /\ req[r].authorization.token.workspace = NoneVal
        /\ req[r].authorization.token.sub = "bob"
        /\ "bob" \notin DOMAIN users
        /\ api_key = "k1" /\ req[r].x_api_key = "k1"
        /\ Rejected401(r)

\* With enforcement off the same request goes on to its handler as
\* anonymous.
MissingAccountAnonymousReached ==
    \E r \in Requests :
        /\ req[r].authorization.scheme = "Bearer"
        /\ req[r].authorization.token.verdict = "ok"
        /\ req[r].authorization.token.workspace = ""
        /\ req[r].authorization.token.sub = "bob"
        /\ api_key = NoneVal
        /\ rpc[r] = "handled"
        /\ Carries(r, "anonymous", NoneVal, FALSE)

====
